---- MODULE Spec2Model ----
(***************************************************************************)
(* Model of scripts/discussions.js, the GitHub Discussions command-line    *)
(* utility: argument parsing, precondition checks, action dispatch, the    *)
(* six handlers with their requests, and the output writer.                *)
(*                                                                         *)
(* Strings that the program inspects character by character (command-line  *)
(* tokens) are sequences of one-character strings, so that toLowerCase,    *)
(* toUpperCase and parseInt are computed, not assumed.  An absent          *)
(* (undefined) value is None == <<>> and a present value x is Some(x).     *)
(***************************************************************************)
EXTENDS Integers, Sequences, FiniteSets, TLC

None == <<>>
Some(x) == <<x>>
IsSome(m) == m # <<>>
Get(m) == m[1]

(***************************************************************************)
(* Characters and string conversions                                       *)
(***************************************************************************)
UpperChars == <<"A","B","C","D","E","F","G","H","I","J","K","L","M",
                "N","O","P","Q","R","S","T","U","V","W","X","Y","Z">>
LowerChars == <<"a","b","c","d","e","f","g","h","i","j","k","l","m",
                "n","o","p","q","r","s","t","u","v","w","x","y","z">>
DigitChars == <<"0","1","2","3","4","5","6","7","8","9">>
WhiteSpace == {" ", "\t", "\n"}

IndexIn(seq, c) == IF \E k \in DOMAIN seq : seq[k] = c
                   THEN CHOOSE k \in DOMAIN seq : seq[k] = c
                   ELSE 0

ToLowerChar(c) == IF IndexIn(UpperChars, c) > 0 THEN LowerChars[IndexIn(UpperChars, c)] ELSE c
ToUpperChar(c) == IF IndexIn(LowerChars, c) > 0 THEN UpperChars[IndexIn(LowerChars, c)] ELSE c

\* String.prototype.toLowerCase / toUpperCase
toLowerCase(s) == [k \in DOMAIN s |-> ToLowerChar(s[k])]
toUpperCase(s) == [k \in DOMAIN s |-> ToUpperChar(s[k])]

IsDigit(c) == IndexIn(DigitChars, c) > 0
DigitVal(c) == IndexIn(DigitChars, c) - 1

RECURSIVE SkipWhite(_)
SkipWhite(s) == IF s # <<>> /\ Head(s) \in WhiteSpace THEN SkipWhite(Tail(s)) ELSE s

\* value of the longest prefix of digits of s, starting from acc
RECURSIVE DigitsValue(_, _)
DigitsValue(s, acc) ==
  IF s # <<>> /\ IsDigit(Head(s)) THEN DigitsValue(Tail(s), 10 * acc + DigitVal(Head(s))) ELSE acc

\* the length of the longest prefix of digits of s
DigitCount(s) ==
  LET others == { k \in DOMAIN s : ~IsDigit(s[k]) }
  IN IF others = {} THEN Len(s)
     ELSE (CHOOSE k \in others : \A j \in others : k <= j) - 1

\* a numeral of more digits than the largest double has is read as Infinity,
\* which stands here as the largest integer; the numerals explored that are
\* shorter have few enough digits to be read exactly
MaxDigits == 309
Infinity == 2147483647

\* Number.isFinite(x) of an optional number: false for undefined, Infinity
\* and -Infinity
IsFinite(m) == IsSome(m) /\ Get(m) # Infinity /\ Get(m) # 0 - Infinity

\* Number.parseInt(value, 10): leading white space skipped, an optional sign,
\* then the longest prefix of digits; NaN (None) when there is no digit.
NumberParseInt(value) ==
  LET t == SkipWhite(value)
      neg == t # <<>> /\ Head(t) = "-"
      u == IF t # <<>> /\ Head(t) \in {"-", "+"} THEN Tail(t) ELSE t
      magnitude == IF DigitCount(u) > MaxDigits THEN Infinity ELSE DigitsValue(u, 0)
  IN IF u # <<>> /\ IsDigit(Head(u))
     THEN Some(IF neg THEN 0 - magnitude ELSE magnitude)
     ELSE None

(***************************************************************************)
(* Flag names                                                              *)
(***************************************************************************)
F_token == <<"-","-","t","o","k","e","n">>
F_owner == <<"-","-","o","w","n","e","r">>
F_repo == <<"-","-","r","e","p","o">>
F_list == <<"-","-","l","i","s","t">>
F_listCategories == <<"-","-","l","i","s","t","-","c","a","t","e","g","o","r","i","e","s">>
F_limit == <<"-","-","l","i","m","i","t">>
F_get == <<"-","-","g","e","t">>
F_create == <<"-","-","c","r","e","a","t","e">>
F_comment == <<"-","-","c","o","m","m","e","n","t">>
F_listComments == <<"-","-","l","i","s","t","-","c","o","m","m","e","n","t","s">>
F_title == <<"-","-","t","i","t","l","e">>
F_body == <<"-","-","b","o","d","y">>
F_categoryId == <<"-","-","c","a","t","e","g","o","r","y","-","i","d">>
F_replyTo == <<"-","-","r","e","p","l","y","-","t","o">>
F_answered == <<"-","-","a","n","s","w","e","r","e","d">>
F_state == <<"-","-","s","t","a","t","e">>
F_format == <<"-","-","f","o","r","m","a","t">>
F_help == <<"-","-","h","e","l","p">>

FLAG_NAMES ==
  { F_token, F_owner, F_repo, F_list, F_listCategories, F_limit, F_get, F_create,
    F_comment, F_listComments, F_title, F_body, F_categoryId, F_replyTo, F_answered,
    F_state, F_format, F_help }

(***************************************************************************)
(* Literal values the parser compares against                              *)
(***************************************************************************)
S_answered == <<"a","n","s","w","e","r","e","d">>
S_unanswered == <<"u","n","a","n","s","w","e","r","e","d">>
S_true == <<"t","r","u","e">>
S_false == <<"f","a","l","s","e">>
S_any == <<"a","n","y">>
S_OPEN == <<"O","P","E","N">>
S_CLOSED == <<"C","L","O","S","E","D">>
S_json == <<"j","s","o","n">>
S_text == <<"t","e","x","t">>

(***************************************************************************)
(* Argument parser                                                         *)
(***************************************************************************)
\* new Error(...) values thrown by the parser: the fixed text of the message
\* and the interpolated parts
ErrRequiresValue(flag) == [text |-> "requires a value", flag |-> flag]
ErrRequiresInteger(flag) == [text |-> "requires an integer value", flag |-> flag]
ErrLimitPositive == [text |-> "--limit requires a positive integer"]
ErrMultipleActions(existing, next) ==
  [text |-> "Multiple actions specified", existing |-> existing, next |-> next]
ErrAnswered == [text |-> "--answered must be one of answered, unanswered, true, false, or any"]
ErrState == [text |-> "--state must be open or closed"]
ErrFormat(value) == [text |-> "Unsupported --format value: ", value |-> value]
ErrUnknown(arg) == [text |-> "Unknown argument: ", arg |-> arg]

Ok(v) == [err |-> None, value |-> v]
Throw(e) == [err |-> Some(e), value |-> None]

\* takeValue without the FLAG_NAMES test
takeValue_NoFlagCheck(list, index, flag) ==
  IF index + 1 > Len(list) THEN Throw(ErrRequiresValue(flag)) ELSE Ok(list[index + 1])

\* takeValue(list, index, flag); index is the 1-based position of the flag
takeValue(list, index, flag) ==
  IF index + 1 > Len(list) \/ list[index + 1] \in FLAG_NAMES
  THEN Throw(ErrRequiresValue(flag))
  ELSE Ok(list[index + 1])

\* parseInteger(value, flag)
parseInteger(value, flag) ==
  LET parsed == NumberParseInt(value)
  IN IF parsed = None THEN Throw(ErrRequiresInteger(flag)) ELSE Ok(Get(parsed))

\* ensureSingleAction that lets the later action win
ensureSingleAction_LastWins(existing, next) == Ok(next)

\* ensureSingleAction(existing, next); existing is None or Some(action)
ensureSingleAction(existing, next) ==
  IF IsSome(existing) /\ Get(existing) # next
  THEN Throw(ErrMultipleActions(Get(existing), next))
  ELSE Ok(next)

\* const opts = { format: 'json' }
InitOpts ==
  [format |-> S_json, token |-> None, owner |-> None, repo |-> None, action |-> None,
   limit |-> None, number |-> None, title |-> None, body |-> None, categoryId |-> None,
   replyToId |-> None, answered |-> None, states |-> None]

Step(opts, i) == [opts |-> opts, i |-> i, err |-> None]
Fail(opts, i, e) == [opts |-> opts, i |-> i, err |-> e]

\* case '--token' | '--owner' | '--repo' | '--title' | '--body' | '--category-id' |
\* '--reply-to': opts.<field> = takeValue(list, i, flag); i += 1
StringCase(list, i, opts, flag, field) ==
  LET v == takeValue(list, i, flag)
  IN IF IsSome(v.err) THEN Fail(opts, i, v.err)
     ELSE Step([opts EXCEPT ![field] = Some(v.value)], i + 2)

\* case '--list' | '--list-categories' | '--create'
ActionCase(list, i, opts, action) ==
  LET a == ensureSingleAction(opts.action, action)
  IN IF IsSome(a.err) THEN Fail(opts, i, a.err)
     ELSE Step([opts EXCEPT !.action = Some(a.value)], i + 1)

\* the numbered actions without the call of ensureSingleAction
NumberActionCase_Unchecked(list, i, opts, flag, action) ==
  LET v == takeValue(list, i, flag)
      n == parseInteger(v.value, flag)
  IN IF IsSome(v.err) THEN Fail(opts, i, v.err)
     ELSE IF IsSome(n.err) THEN Fail(opts, i, n.err)
     ELSE Step([opts EXCEPT !.action = Some(action), !.number = Some(n.value)], i + 2)

\* the numbered actions where the first number given stays
NumberActionCase_FirstStays(list, i, opts, flag, action) ==
  LET a == ensureSingleAction(opts.action, action)
      v == takeValue(list, i, flag)
      n == parseInteger(v.value, flag)
  IN IF IsSome(a.err) THEN Fail(opts, i, a.err)
     ELSE IF IsSome(v.err) THEN Fail(opts, i, v.err)
     ELSE IF IsSome(n.err) THEN Fail(opts, i, n.err)
     ELSE Step([opts EXCEPT !.action = Some(a.value),
                            !.number = IF IsSome(opts.number) THEN opts.number
                                       ELSE Some(n.value)], i + 2)

\* case '--get' | '--comment' | '--list-comments'
NumberActionCase(list, i, opts, flag, action) ==
  LET a == ensureSingleAction(opts.action, action)
      v == takeValue(list, i, flag)
      n == parseInteger(v.value, flag)
  IN IF IsSome(a.err) THEN Fail(opts, i, a.err)
     ELSE IF IsSome(v.err) THEN Fail(opts, i, v.err)
     ELSE IF IsSome(n.err) THEN Fail(opts, i, n.err)
     ELSE Step([opts EXCEPT !.action = Some(a.value), !.number = Some(n.value)], i + 2)

\* --limit without the test for a positive value
LimitCase_AnySign(list, i, opts) ==
  LET v == takeValue(list, i, "--limit")
      n == parseInteger(v.value, "--limit")
  IN IF IsSome(v.err) THEN Fail(opts, i, v.err)
     ELSE IF IsSome(n.err) THEN Fail(opts, i, n.err)
     ELSE Step([opts EXCEPT !.limit = Some(n.value)], i + 2)

\* case '--limit'
LimitCase(list, i, opts) ==
  LET v == takeValue(list, i, "--limit")
      n == parseInteger(v.value, "--limit")
  IN IF IsSome(v.err) THEN Fail(opts, i, v.err)
     ELSE IF IsSome(n.err) THEN Fail(opts, i, n.err)
     ELSE IF ~IsFinite(Some(n.value)) \/ n.value <= 0 THEN Fail(opts, i, Some(ErrLimitPositive))
     ELSE Step([opts EXCEPT !.limit = Some(n.value)], i + 2)

\* --answered where any leaves an earlier filter in place
AnsweredCase_AnyKeeps(list, i, opts) ==
  LET v == takeValue(list, i, "--answered")
      value == toLowerCase(v.value)
  IN IF IsSome(v.err) THEN Fail(opts, i, v.err)
     ELSE IF value \notin {S_answered, S_unanswered, S_true, S_false, S_any}
     THEN Fail(opts, i, Some(ErrAnswered))
     ELSE IF value = S_any THEN Step(opts, i + 2)
     ELSE Step([opts EXCEPT !.answered = Some(value = S_answered \/ value = S_true)], i + 2)

\* --answered where only false maps to false
AnsweredCase_UnansweredTrue(list, i, opts) ==
  LET v == takeValue(list, i, "--answered")
      value == toLowerCase(v.value)
  IN IF IsSome(v.err) THEN Fail(opts, i, v.err)
     ELSE IF value \notin {S_answered, S_unanswered, S_true, S_false, S_any}
     THEN Fail(opts, i, Some(ErrAnswered))
     ELSE IF value = S_any THEN Step([opts EXCEPT !.answered = None], i + 2)
     ELSE Step([opts EXCEPT !.answered = Some(value # S_false)], i + 2)

\* case '--answered'
AnsweredCase(list, i, opts) ==
  LET v == takeValue(list, i, "--answered")
      value == toLowerCase(v.value)
  IN IF IsSome(v.err) THEN Fail(opts, i, v.err)
     ELSE IF value \notin {S_answered, S_unanswered, S_true, S_false, S_any}
     THEN Fail(opts, i, Some(ErrAnswered))
     ELSE IF value = S_any THEN Step([opts EXCEPT !.answered = None], i + 2)
     ELSE Step([opts EXCEPT !.answered = Some(value = S_answered \/ value = S_true)], i + 2)

\* --state without the includes test
StateCase_NoDedup(list, i, opts) ==
  LET v == takeValue(list, i, "--state")
      value == toUpperCase(v.value)
      states == IF IsSome(opts.states) THEN Get(opts.states) ELSE <<>>
  IN IF IsSome(v.err) THEN Fail(opts, i, v.err)
     ELSE IF value \notin {S_OPEN, S_CLOSED} THEN Fail(opts, i, Some(ErrState))
     ELSE Step([opts EXCEPT !.states = Some(Append(states, value))], i + 2)

\* case '--state'
StateCase(list, i, opts) ==
  LET v == takeValue(list, i, "--state")
      value == toUpperCase(v.value)
      states == IF IsSome(opts.states) THEN Get(opts.states) ELSE <<>>
  IN IF IsSome(v.err) THEN Fail(opts, i, v.err)
     ELSE IF value \notin {S_OPEN, S_CLOSED} THEN Fail(opts, i, Some(ErrState))
     ELSE IF \E k \in DOMAIN states : states[k] = value
     THEN Step([opts EXCEPT !.states = Some(states)], i + 2)
     ELSE Step([opts EXCEPT !.states = Some(Append(states, value))], i + 2)

\* --format without the test of the value
FormatCase_Unchecked(list, i, opts) ==
  LET v == takeValue(list, i, "--format")
      value == toLowerCase(v.value)
  IN IF IsSome(v.err) THEN Fail(opts, i, v.err)
     ELSE Step([opts EXCEPT !.format = value], i + 2)

\* case '--format'
FormatCase(list, i, opts) ==
  LET v == takeValue(list, i, "--format")
      value == toLowerCase(v.value)
  IN IF IsSome(v.err) THEN Fail(opts, i, v.err)
     ELSE IF value \notin {S_json, S_text} THEN Fail(opts, i, Some(ErrFormat(value)))
     ELSE Step([opts EXCEPT !.format = value], i + 2)

\* one iteration of parseArgs' for loop: the switch on list[i] and the loop's
\* i += 1; i is the 1-based position of the token examined
ParseStep(list, i, opts) ==
  LET arg == list[i]
  IN CASE arg = F_token -> StringCase(list, i, opts, "--token", "token")
       [] arg = F_owner -> StringCase(list, i, opts, "--owner", "owner")
       [] arg = F_repo -> StringCase(list, i, opts, "--repo", "repo")
       [] arg = F_list -> ActionCase(list, i, opts, "list")
       [] arg = F_listCategories -> ActionCase(list, i, opts, "listCategories")
       [] arg = F_limit -> LimitCase(list, i, opts)
       [] arg = F_get -> NumberActionCase(list, i, opts, "--get", "get")
       [] arg = F_create -> ActionCase(list, i, opts, "create")
       [] arg = F_comment -> NumberActionCase(list, i, opts, "--comment", "comment")
       [] arg = F_listComments ->
            NumberActionCase(list, i, opts, "--list-comments", "listComments")
       [] arg = F_title -> StringCase(list, i, opts, "--title", "title")
       [] arg = F_body -> StringCase(list, i, opts, "--body", "body")
       [] arg = F_categoryId -> StringCase(list, i, opts, "--category-id", "categoryId")
       [] arg = F_replyTo -> StringCase(list, i, opts, "--reply-to", "replyToId")
       [] arg = F_answered -> AnsweredCase(list, i, opts)
       [] arg = F_state -> StateCase(list, i, opts)
       [] arg = F_format -> FormatCase(list, i, opts)
       [] OTHER -> Fail(opts, i, Some(ErrUnknown(arg)))

\* parseArgs(list), run from position i with the options collected so far:
\* the options returned, or the error thrown
RECURSIVE ParseFrom(_, _, _)
ParseFrom(list, i, opts) ==
  IF i > Len(list) THEN Step(opts, i)
  ELSE LET r == ParseStep(list, i, opts)
       IN IF IsSome(r.err) THEN r ELSE ParseFrom(list, r.i, r.opts)

parseArgs(list) == ParseFrom(list, 1, InitOpts)

(***************************************************************************)
(* Inputs: the command line and the environment                            *)
(***************************************************************************)
V_2 == <<"2">>
V_7 == <<"7">>
V_0 == <<"0">>
V_neg3 == <<"-","3">>
V_2x == <<"2","x">>
V_abc == <<"a","b","c">>
V_r == <<"r">>
V_tk == <<"t","k">>
V_empty == <<>>
V_open == <<"o","p","e","n">>
V_closed == <<"c","l","o","s","e","d">>
V_Closed == <<"C","l","o","s","e","d">>
V_False == <<"F","a","l","s","e">>
V_TEXT == <<"T","E","X","T">>
V_xml == <<"x","m","l">>
\* a numeral beyond the range of a double: MaxDigits + 1 nines
V_huge == [k \in 1..(MaxDigits + 1) |-> "9"]

ValueTokens ==
  { V_2, V_7, V_0, V_neg3, V_2x, V_abc, V_r, V_empty,
    S_answered, S_unanswered, S_true, S_false, S_any, V_False,
    V_open, V_closed, S_OPEN, V_Closed,
    S_json, S_text, V_TEXT, V_xml }

Tokens == FLAG_NAMES \cup ValueTokens

\* bounds of the command lines explored
MaxTokens == 2
MaxGroups == 2

RECURSIVE SeqsUpTo(_, _)
SeqsUpTo(S, n) ==
  IF n = 0 THEN { <<>> }
  ELSE LET shorter == SeqsUpTo(S, n - 1)
       IN shorter \cup { Append(q, x) : q \in { r \in shorter : Len(r) = n - 1 }, x \in S }

RECURSIVE Flatten(_)
Flatten(groups) == IF groups = <<>> THEN <<>> ELSE Head(groups) \o Flatten(Tail(groups))

\* a flag alone, or a flag with a well-formed value
ActionGroups ==
  { <<F_list>>, <<F_listCategories>>, <<F_get, V_7>>, <<F_get, V_2>>, <<F_create>>,
    <<F_comment, V_7>>, <<F_listComments, V_7>> }
OptionGroups ==
  { <<F_token, V_abc>>, <<F_token, V_empty>>, <<F_limit, V_2>>,
    <<F_answered, S_unanswered>>, <<F_answered, S_true>>, <<F_state, V_open>>,
    <<F_format, S_text>> }
Groups == ActionGroups \cup OptionGroups

FullBase == <<F_owner, V_abc, F_repo, V_r>>
Bases == { <<>>, FullBase, <<F_help>> }

\* options after the action, in this order, any of them left out: the
\* filters of --list, or the fields of --create and --comment
FilterTemplate ==
  << <<F_answered, S_false>>, <<F_state, V_open>>, <<F_answered, S_any>>,
     <<F_state, S_CLOSED>>, <<F_state, V_open>> >>
FieldTemplate ==
  << <<F_title, V_abc>>, <<F_body, V_abc>>, <<F_categoryId, V_r>>, <<F_replyTo, V_r>> >>

RECURSIVE SubSequences(_)
SubSequences(seq) ==
  IF seq = <<>> THEN { <<>> }
  ELSE LET rest == SubSequences(Tail(seq))
       IN rest \cup { <<Head(seq)>> \o q : q \in rest }

\* every token sequence up to MaxTokens tokens that begins with a flag, or
\* with one token that is not a flag
FreeLists ==
  { s \in SeqsUpTo(Tokens, MaxTokens) : s # <<>> => s[1] \in FLAG_NAMES \cup {V_abc} }
\* nothing, owner and repo, or --help, then up to MaxGroups flags with their values
GroupLists == { base \o Flatten(gs) : base \in Bases, gs \in SeqsUpTo(Groups, MaxGroups) }
\* owner and repo, one action, then options
OptionLists ==
  { FullBase \o a \o Flatten(os) :
      a \in ActionGroups,
      os \in SubSequences(FilterTemplate) \cup SubSequences(FieldTemplate) }

\* owner and repo, then a numbered action whose number is out of range
HugeLists == { FullBase \o <<f, V_huge>> : f \in { F_get, F_comment, F_listComments } }

ArgLists == FreeLists \cup GroupLists \cup OptionLists \cup HugeLists
EnvTokens == { None, Some(V_tk), Some(V_empty) }

(***************************************************************************)
(* State                                                                   *)
(***************************************************************************)
VARIABLES
  args,       \* process.argv.slice(2)
  envToken,   \* env.GITHUB_TOKEN: None or Some(token)
  pc,         \* position of the run
  i,          \* parseArgs: position of the token examined (1-based)
  opts,       \* parseArgs: the options collected so far
  options,    \* main: None (let options;), then Some(the options parseArgs returned)
  token,      \* main: the token resolved from --token or the environment
  requests,   \* every request issued so far, in order
  inflight,   \* requests issued and not yet answered
  stdoutLog,  \* writes to standard output made by output()
  stderrLog,  \* console.error calls
  helpCount,  \* calls of printHelp
  exitCode,   \* None while running, then Some(code)
  responses,  \* every response received so far, in order
  resolvedId, \* handleCreate / handleComment: the node id looked up
  comments,   \* handleListComments: the comments accumulated
  after,      \* handleListComments: the cursor of the next page
  discussionSummary,  \* handleListComments: None until the first page
  invoked     \* the handlers main has called, in order

parserVars == <<i, opts>>
ioVars == <<stdoutLog, stderrLog, helpCount, exitCode>>
netVars == <<requests, inflight, responses>>
handlerVars == <<resolvedId, comments, after, discussionSummary>>
vars == <<args, envToken, pc, i, opts, options, token, requests, inflight,
          stdoutLog, stderrLog, helpCount, exitCode, responses, resolvedId,
          comments, after, discussionSummary, invoked>>

Init ==
  /\ args \in ArgLists
  /\ envToken \in EnvTokens
  /\ pc = "start"
  /\ i = 1
  /\ opts = InitOpts
  /\ options = None
  /\ token = None
  /\ requests = <<>>
  /\ inflight = 0
  /\ stdoutLog = <<>>
  /\ stderrLog = <<>>
  /\ helpCount = 0
  /\ exitCode = None
  /\ responses = <<>>
  /\ resolvedId = None
  /\ comments = <<>>
  /\ after = None
  /\ discussionSummary = None
  /\ invoked = <<>>

\* a variant that looks at the first element only
Includes_First(list, x) == list # <<>> /\ list[1] = x

Includes(list, x) == \E k \in DOMAIN list : list[k] = x

\* JavaScript truthiness of an optional string: defined and not empty
Truthy(m) == IsSome(m) /\ Get(m) # <<>>

\* exit(code) after console.error(message)
ExitWith(code, messages, help) ==
  /\ stderrLog' = stderrLog \o messages
  /\ helpCount' = helpCount + (IF help THEN 1 ELSE 0)
  /\ exitCode' = Some(code)
  /\ pc' = "exit"

\* top level: args empty or --help anywhere prints the help and exits 0;
\* otherwise main() is called and enters parseArgs
Startup ==
  /\ pc = "start"
  /\ IF Len(args) = 0 \/ Includes(args, F_help)
     THEN /\ ExitWith(0, <<>>, TRUE)
          /\ UNCHANGED <<i, opts>>
     ELSE /\ pc' = "parse"
          /\ i' = 1
          /\ opts' = InitOpts
          /\ UNCHANGED <<stderrLog, helpCount, exitCode>>
  /\ UNCHANGED <<args, envToken, options, token, stdoutLog, netVars, handlerVars>>
  /\ UNCHANGED invoked

\* one iteration of the loop of parseArgs; an error thrown is caught by main,
\* which reports it, prints the help and exits 1
ParseIteration ==
  /\ pc = "parse"
  /\ i <= Len(args)
  /\ LET r == ParseStep(args, i, opts)
     IN IF IsSome(r.err)
        THEN /\ ExitWith(1, <<Get(r.err)>>, TRUE)
             /\ UNCHANGED <<i, opts>>
        ELSE /\ i' = r.i
             /\ opts' = r.opts
             /\ UNCHANGED <<pc, stderrLog, helpCount, exitCode>>
  /\ UNCHANGED <<args, envToken, options, token, stdoutLog, netVars, handlerVars>>
  /\ UNCHANGED invoked

\* the loop ends: return opts; main stores it in options
ParseReturn ==
  /\ pc = "parse"
  /\ i > Len(args)
  /\ options' = Some(opts)
  /\ pc' = "precheck"
  /\ UNCHANGED <<args, envToken, parserVars, token, ioVars, netVars, handlerVars>>
  /\ UNCHANGED invoked

ErrMissingToken == [text |-> "Missing GitHub token. Provide via --token or GITHUB_TOKEN env var."]
ErrMissingOwnerRepo == [text |-> "Missing --owner or --repo argument."]
ErrNoAction ==
  [text |-> "No action specified. Use --list, --list-categories, --get, --create, --list-comments, or --comment."]

\* a variant that prefers the environment's token
ResolveToken_EnvFirst(o, e) == IF Truthy(e) THEN e ELSE o.token

\* Opt.token || env.GITHUB_TOKEN
ResolveToken(o, e) == IF Truthy(o.token) THEN o.token ELSE e

\* the options main holds once parseArgs has returned
Opt == Get(options)

\* a variant that does not check the owner and the repository
PrecheckError_NoOwnerRepo(o, tk) ==
  IF ~Truthy(tk) THEN Some(ErrMissingToken)
  ELSE IF ~IsSome(o.action) THEN Some(ErrNoAction)
  ELSE None

\* main: the three checks between parsing and dispatch, in order; the
\* message of the first that fails, None when all pass
PrecheckError(o, tk) ==
  IF ~Truthy(tk) THEN Some(ErrMissingToken)
  ELSE IF ~Truthy(o.owner) \/ ~Truthy(o.repo) THEN Some(ErrMissingOwnerRepo)
  ELSE IF ~IsSome(o.action) THEN Some(ErrNoAction)
  ELSE None

\* a variant that prints the help text as the catch of parseArgs does
ReportPrecondition_WithHelp(e) == ExitWith(1, <<e>>, TRUE)

\* main: a failed check is reported with console.error alone and exits 1
ReportPrecondition(e) == ExitWith(1, <<e>>, FALSE)

\* main: between parsing and dispatch
Precheck ==
  /\ pc = "precheck"
  /\ LET tk == ResolveToken(Opt, envToken)
         e == PrecheckError(Opt, tk)
     IN /\ token' = tk
        /\ IF IsSome(e) THEN ReportPrecondition(Get(e))
           ELSE /\ pc' = "dispatch"
                /\ UNCHANGED <<stderrLog, helpCount, exitCode>>
  /\ UNCHANGED <<args, envToken, parserVars, options, stdoutLog, netVars, handlerVars>>
  /\ UNCHANGED invoked

(***************************************************************************)
(* Transport: requests issued and the answers of the remote service        *)
(***************************************************************************)
\* bounds of the remote answers explored
MaxNodes == 3
MaxBatch == 2
MaxPages == 3

\* requestGraphQL(token, query, variables): the fetch it issues
GraphQLRequest(tk, op, variables) ==
  [api |-> "graphql", method |-> "POST", op |-> op, authorization |-> tk,
   variables |-> variables]

\* requestREST(token, method, path): the fetch it issues
RESTRequest(tk, method, path) ==
  [api |-> "rest", method |-> method, path |-> path, authorization |-> tk]

Issue(req) ==
  /\ requests' = Append(requests, req)
  /\ inflight' = inflight + 1

Receive(resp) ==
  /\ responses' = Append(responses, resp)
  /\ inflight' = inflight - 1
  /\ UNCHANGED requests

\* an answer to a GraphQL request: the fetch or response.json() rejects, or a
\* status (ok or not) with a JSON payload {errors, data}
Rejected == [rejected |-> TRUE]
\* a response, of success status or not, whose body is not JSON:
\* response.json() rejects
NotJSON(ok) == [rejected |-> TRUE, ok |-> ok]
GraphQLAnswers(DataSet, sample) ==
  { Rejected, NotJSON(TRUE), NotJSON(FALSE) }
    \cup { [rejected |-> FALSE, ok |-> TRUE, payload |-> [errors |-> FALSE, data |-> d]] :
             d \in DataSet }
    \cup { [rejected |-> FALSE, ok |-> FALSE, payload |-> [errors |-> FALSE, data |-> None]],
           [rejected |-> FALSE, ok |-> FALSE, payload |-> [errors |-> TRUE, data |-> None]],
           [rejected |-> FALSE, ok |-> TRUE, payload |-> [errors |-> TRUE, data |-> None]],
           [rejected |-> FALSE, ok |-> TRUE, payload |-> [errors |-> TRUE, data |-> sample]] }

ErrFetch == [text |-> "fetch failed", responseBody |-> None]
\* the SyntaxError of response.json()
ErrJSON == [text |-> "Unexpected token", responseBody |-> None]
ErrGraphQL(payload) ==
  [text |-> "GitHub GraphQL API request failed", responseBody |-> Some(payload)]
ErrREST(status, payload) ==
  [text |-> IF status = 404 THEN "GitHub REST API request failed with status 404"
            ELSE "GitHub REST API request failed with status (other)",
   responseBody |-> payload]
HandlerError(text) == [text |-> text, responseBody |-> None]

\* requestGraphQL after the answer: the data returned, or the error thrown
requestGraphQL(resp) ==
  IF resp.rejected THEN (IF "ok" \in DOMAIN resp THEN Throw(ErrJSON) ELSE Throw(ErrFetch))
  ELSE IF ~resp.ok \/ resp.payload.errors THEN Throw(ErrGraphQL(resp.payload))
  ELSE Ok(resp.payload.data)

\* an answer to a REST request: a status and a raw body, which is empty, JSON
\* text or other text
RESTAnswers ==
  { Rejected }
    \cup { [rejected |-> FALSE, ok |-> k, status |-> IF k THEN 200 ELSE 404, rawBody |-> b] :
             k \in BOOLEAN,
             b \in { [kind |-> "empty"], [kind |-> "json", value |-> "{\"number\":7}"],
                     [kind |-> "text", value |-> "Not Found"] } }

\* requestREST after the answer: JSON.parse(rawBody), the raw text when that
\* fails, null (None) for an empty body
RESTPayload(rawBody) ==
  IF rawBody.kind = "empty" THEN None
  ELSE Some([parsed |-> rawBody.kind = "json", value |-> rawBody.value])

\* a variant that returns the payload whatever the status
requestREST_AnyStatus(resp) ==
  IF resp.rejected THEN Throw(ErrFetch) ELSE Ok(RESTPayload(resp.rawBody))

requestREST(resp) ==
  IF resp.rejected THEN Throw(ErrFetch)
  ELSE IF ~resp.ok THEN Throw(ErrREST(resp.status, RESTPayload(resp.rawBody)))
  ELSE Ok(RESTPayload(resp.rawBody))

\* output(value, format)
Output(value, format) == stdoutLog' = Append(stdoutLog, [value |-> value, format |-> format])

\* a variant that never prints the response body
MainCatch_NoBody(e) == ExitWith(1, <<[text |-> e.text]>>, FALSE)

\* main's catch of an error thrown by a handler: the message, the response
\* body when the error carries one, exit(1)
MainCatch(e) ==
  ExitWith(1,
           <<[text |-> e.text]>>
             \o (IF IsSome(e.responseBody) THEN <<[body |-> Get(e.responseBody)]>> ELSE <<>>),
           FALSE)

\* a variant of the switch whose cases do not look at the action
Dispatch_AnyCase(action) == pc = "dispatch" /\ IsSome(Opt.action)

\* main: switch (options.action), the case of one action
Dispatch(action) == pc = "dispatch" /\ Opt.action = Some(action)

\* main returns after the handler: the process ends with code 0
MainReturn ==
  /\ pc' = "exit"
  /\ exitCode' = Some(0)
  /\ UNCHANGED <<stderrLog, helpCount>>

(***************************************************************************)
(* handleList                                                              *)
(***************************************************************************)
DefaultLimit == 20

\* a variant that ignores --limit
ListLimit_Ignored(o) == DefaultLimit

\* const limit = Number.isFinite(Opt.limit) && Opt.limit > 0 ? Opt.limit : 20
ListLimit(o) == IF IsFinite(o.limit) /\ Get(o.limit) > 0 THEN Get(o.limit) ELSE DefaultLimit

\* the variables object of the list query; None is a key that is not set
ListVariables(o) ==
  [owner |-> Get(o.owner),
   name |-> Get(o.repo),
   first |-> ListLimit(o),
   categoryId |-> IF Truthy(o.categoryId) THEN o.categoryId ELSE None,
   answered |-> IF IsSome(o.answered) THEN o.answered ELSE None,
   states |-> IF IsSome(o.states) /\ Len(Get(o.states)) > 0 THEN o.states ELSE None]

\* the request of handleList
ListRequest(o, tk) == GraphQLRequest(Get(tk), "listDiscussions", ListVariables(o))

HandleList ==
  /\ Dispatch("list")
  /\ Issue(ListRequest(Opt, token))
  /\ pc' = "list_wait"
  /\ UNCHANGED <<args, envToken, parserVars, options, token, ioVars, responses, handlerVars>>
  /\ invoked' = Append(invoked, "handleList")

\* a discussion node as the remote returns it
DiscussionNodes == { [number |-> n, closed |-> c] : n \in {1}, c \in BOOLEAN }
\* data?.repository?.discussions?.nodes: None when any link is null
ListData == { None } \cup { Some(ns) : ns \in SeqsUpTo(DiscussionNodes, MaxNodes) }

\* a variant with the two states exchanged
WithState_Inverted(node) ==
  [number |-> node.number, closed |-> node.closed,
   state |-> IF node.closed THEN "OPEN" ELSE "CLOSED"]

\* ({ ...node, state: node.closed ? 'CLOSED' : 'OPEN' })
WithState(node) ==
  [number |-> node.number, closed |-> node.closed,
   state |-> IF node.closed THEN "CLOSED" ELSE "OPEN"]

ListOutput(data) ==
  LET nodes == IF IsSome(data) THEN Get(data) ELSE <<>>
  IN [k \in DOMAIN nodes |-> WithState(nodes[k])]

ListResponse ==
  /\ pc = "list_wait"
  /\ \E resp \in GraphQLAnswers(ListData, Some(<<[number |-> 1, closed |-> TRUE]>>)) :
       /\ Receive(resp)
       /\ LET r == requestGraphQL(resp)
          IN IF IsSome(r.err)
             THEN MainCatch(Get(r.err)) /\ UNCHANGED stdoutLog
             ELSE Output(ListOutput(r.value), Opt.format) /\ MainReturn
  /\ UNCHANGED <<args, envToken, parserVars, options, token, handlerVars>>
  /\ UNCHANGED invoked

(***************************************************************************)
(* handleListCategories                                                    *)
(***************************************************************************)
HandleListCategories ==
  /\ Dispatch("listCategories")
  /\ Issue(GraphQLRequest(Get(token), "listCategories",
                          [owner |-> Get(Opt.owner), name |-> Get(Opt.repo)]))
  /\ pc' = "categories_wait"
  /\ UNCHANGED <<args, envToken, parserVars, options, token, ioVars, responses, handlerVars>>
  /\ invoked' = Append(invoked, "handleListCategories")

CategoryNodes ==
  { [id |-> "C_1", name |-> "General", description |-> "d", isAnswerable |-> a] : a \in BOOLEAN }
\* data?.repository: None, or the repository id and its category nodes
CategoriesData ==
  { None } \cup { Some([id |-> "R_1", nodes |-> ns]) : ns \in SeqsUpTo(CategoryNodes, 1) }

FormatCategory(category) ==
  [id |-> category.id, name |-> category.name, answerable |-> category.isAnswerable,
   description |-> category.description]

CategoriesOutput(data) ==
  LET categories == IF IsSome(data) THEN Get(data).nodes ELSE <<>>
  IN [repositoryId |-> IF IsSome(data) THEN Some(Get(data).id) ELSE None,
      categories |-> [k \in DOMAIN categories |-> FormatCategory(categories[k])]]

ListCategoriesResponse ==
  /\ pc = "categories_wait"
  /\ \E resp \in GraphQLAnswers(CategoriesData, None) :
       /\ Receive(resp)
       /\ LET r == requestGraphQL(resp)
          IN IF IsSome(r.err)
             THEN MainCatch(Get(r.err)) /\ UNCHANGED stdoutLog
             ELSE Output(CategoriesOutput(r.value), Opt.format) /\ MainReturn
  /\ UNCHANGED <<args, envToken, parserVars, options, token, handlerVars>>
  /\ UNCHANGED invoked

(***************************************************************************)
(* handleGet                                                               *)
(***************************************************************************)
\* a variant with owner and repository exchanged
GetPath_Swapped(o) ==
  [owner |-> Get(o.repo), repo |-> Get(o.owner), number |-> Get(o.number)]

\* `/repos/${owner}/${repo}/discussions/${number}`, kept as its three parts
GetPath(o) ==
  [owner |-> Get(o.owner), repo |-> Get(o.repo), number |-> Get(o.number)]

HandleGet ==
  /\ Dispatch("get")
  /\ IF ~IsFinite(Opt.number)
     THEN /\ MainCatch(HandlerError("--get requires a discussion number"))
          /\ UNCHANGED <<stdoutLog, netVars>>
     ELSE /\ Issue(RESTRequest(Get(token), "GET", GetPath(Opt)))
          /\ pc' = "get_wait"
          /\ UNCHANGED <<ioVars, responses>>
  /\ UNCHANGED <<args, envToken, parserVars, options, token, handlerVars>>
  /\ invoked' = Append(invoked, "handleGet")

GetResponse ==
  /\ pc = "get_wait"
  /\ \E resp \in RESTAnswers :
       /\ Receive(resp)
       /\ LET r == requestREST(resp)
          IN IF IsSome(r.err)
             THEN MainCatch(Get(r.err)) /\ UNCHANGED stdoutLog
             ELSE Output(r.value, Opt.format) /\ MainReturn
  /\ UNCHANGED <<args, envToken, parserVars, options, token, handlerVars>>
  /\ UNCHANGED invoked

(***************************************************************************)
(* handleCreate and getRepositoryId                                        *)
(***************************************************************************)
\* the validation of handleCreate without the test of categoryId
CreateValidation_NoCategory(o) ==
  IF ~Truthy(o.title) THEN Some(HandlerError("--create requires --title"))
  ELSE IF ~Truthy(o.body) THEN Some(HandlerError("--create requires --body"))
  ELSE None

\* the validation of handleCreate: the error thrown, or None
CreateValidation(o) ==
  IF ~Truthy(o.title) THEN Some(HandlerError("--create requires --title"))
  ELSE IF ~Truthy(o.body) THEN Some(HandlerError("--create requires --body"))
  ELSE IF ~Truthy(o.categoryId) THEN Some(HandlerError("--create requires --category-id"))
  ELSE None

\* handleCreate up to the request of getRepositoryId
HandleCreate ==
  /\ Dispatch("create")
  /\ IF IsSome(CreateValidation(Opt))
     THEN /\ MainCatch(Get(CreateValidation(Opt)))
          /\ UNCHANGED <<stdoutLog, netVars>>
     ELSE /\ Issue(GraphQLRequest(Get(token), "repositoryId",
                                  [owner |-> Get(Opt.owner), name |-> Get(Opt.repo)]))
          /\ pc' = "create_lookup_wait"
          /\ UNCHANGED <<ioVars, responses>>
  /\ UNCHANGED <<args, envToken, parserVars, options, token, handlerVars>>
  /\ invoked' = Append(invoked, "handleCreate")

\* data?.repository?.id / data?.repository?.discussion?.id: None when absent
IdData == { None, Some(""), Some("ID_1"), Some("ID_2") }

\* a variant that takes any defined id, the empty one too
Resolved_AnyDefined(id) == IsSome(id)

\* if (!repositoryId) / if (!discussionId): an absent or empty id is falsy
Resolved(id) == IsSome(id) /\ Get(id) # ""

CreateVariables(o, repositoryId) ==
  [repositoryId |-> repositoryId, categoryId |-> Get(o.categoryId),
   title |-> Get(o.title), body |-> Get(o.body)]

\* getRepositoryId after the answer, then the createDiscussion mutation
CreateLookupResponse ==
  /\ pc = "create_lookup_wait"
  /\ \E resp \in GraphQLAnswers(IdData, Some("ID_1")) :
       LET r == requestGraphQL(resp)
       IN IF IsSome(r.err)
          THEN /\ Receive(resp)
               /\ MainCatch(Get(r.err))
               /\ UNCHANGED <<stdoutLog, resolvedId>>
          ELSE IF ~Resolved(r.value)
          THEN /\ Receive(resp)
               /\ MainCatch(HandlerError("Unable to resolve repository ID for createDiscussion."))
               /\ UNCHANGED <<stdoutLog, resolvedId>>
          ELSE /\ responses' = Append(responses, resp)
               /\ resolvedId' = r.value
               /\ requests' = Append(requests,
                    GraphQLRequest(Get(token), "createDiscussion",
                                   CreateVariables(Opt, Get(r.value))))
               /\ inflight' = inflight - 1 + 1
               /\ pc' = "create_mutation_wait"
               /\ UNCHANGED ioVars
  /\ UNCHANGED <<args, envToken, parserVars, options, token, comments, after,
                 discussionSummary>>
  /\ UNCHANGED invoked

\* data?.createDiscussion?.discussion
CreatedData == { None, Some([id |-> "D_9", number |-> 9, title |-> "t", url |-> "u"]) }

CreateMutationResponse ==
  /\ pc = "create_mutation_wait"
  /\ \E resp \in GraphQLAnswers(CreatedData, None) :
       /\ Receive(resp)
       /\ LET r == requestGraphQL(resp)
          IN IF IsSome(r.err)
             THEN MainCatch(Get(r.err)) /\ UNCHANGED stdoutLog
             ELSE Output(r.value, Opt.format) /\ MainReturn
  /\ UNCHANGED <<args, envToken, parserVars, options, token, handlerVars>>
  /\ UNCHANGED invoked

(***************************************************************************)
(* handleComment and getDiscussionId                                       *)
(***************************************************************************)
CommentValidation(o) ==
  IF ~IsFinite(o.number) THEN Some(HandlerError("--comment requires a discussion number"))
  ELSE IF ~Truthy(o.body) THEN Some(HandlerError("--comment requires --body"))
  ELSE None

HandleComment ==
  /\ Dispatch("comment")
  /\ IF IsSome(CommentValidation(Opt))
     THEN /\ MainCatch(Get(CommentValidation(Opt)))
          /\ UNCHANGED <<stdoutLog, netVars>>
     ELSE /\ Issue(GraphQLRequest(Get(token), "discussionId",
                                  [owner |-> Get(Opt.owner), name |-> Get(Opt.repo),
                                   number |-> Get(Opt.number)]))
          /\ pc' = "comment_lookup_wait"
          /\ UNCHANGED <<ioVars, responses>>
  /\ UNCHANGED <<args, envToken, parserVars, options, token, handlerVars>>
  /\ invoked' = Append(invoked, "handleComment")

\* replyToId: Opt.replyToId ?? null
\* a variant that never sends the id of the comment replied to
CommentVariables_NoReply(o, discussionId) ==
  [discussionId |-> discussionId, replyToId |-> None, body |-> Get(o.body)]

\* replyToId: options.replyToId ?? null (None)
CommentVariables(o, discussionId) ==
  [discussionId |-> discussionId, replyToId |-> o.replyToId, body |-> Get(o.body)]

CommentLookupResponse ==
  /\ pc = "comment_lookup_wait"
  /\ \E resp \in GraphQLAnswers(IdData, Some("ID_1")) :
       LET r == requestGraphQL(resp)
       IN IF IsSome(r.err)
          THEN /\ Receive(resp)
               /\ MainCatch(Get(r.err))
               /\ UNCHANGED <<stdoutLog, resolvedId>>
          ELSE IF ~Resolved(r.value)
          THEN /\ Receive(resp)
               /\ MainCatch(HandlerError("Unable to resolve discussion ID. Check the discussion number."))
               /\ UNCHANGED <<stdoutLog, resolvedId>>
          ELSE /\ responses' = Append(responses, resp)
               /\ resolvedId' = r.value
               /\ requests' = Append(requests,
                    GraphQLRequest(Get(token), "addDiscussionComment",
                                   CommentVariables(Opt, Get(r.value))))
               /\ inflight' = inflight - 1 + 1
               /\ pc' = "comment_mutation_wait"
               /\ UNCHANGED ioVars
  /\ UNCHANGED <<args, envToken, parserVars, options, token, comments, after,
                 discussionSummary>>
  /\ UNCHANGED invoked

\* data?.addDiscussionComment?.comment
CommentedData == { None, Some([id |-> "DC_1", url |-> "u", body |-> "b"]) }

CommentMutationResponse ==
  /\ pc = "comment_mutation_wait"
  /\ \E resp \in GraphQLAnswers(CommentedData, None) :
       /\ Receive(resp)
       /\ LET r == requestGraphQL(resp)
          IN IF IsSome(r.err)
             THEN MainCatch(Get(r.err)) /\ UNCHANGED stdoutLog
             ELSE Output(r.value, Opt.format) /\ MainReturn
  /\ UNCHANGED <<args, envToken, parserVars, options, token, handlerVars>>
  /\ UNCHANGED invoked

(***************************************************************************)
(* handleListComments                                                      *)
(***************************************************************************)
\* handleListComments up to the head of its while loop
HandleListComments ==
  /\ Dispatch("listComments")
  /\ IF ~IsFinite(Opt.number)
     THEN /\ MainCatch(HandlerError("--list-comments requires a discussion number"))
          /\ UNCHANGED handlerVars
     ELSE /\ comments' = <<>>
          /\ after' = None
          /\ discussionSummary' = None
          /\ pc' = "comments_loop"
          /\ UNCHANGED <<resolvedId, stderrLog, helpCount, exitCode>>
  /\ UNCHANGED <<args, envToken, parserVars, options, token, stdoutLog, netVars>>
  /\ invoked' = Append(invoked, "handleListComments")

\* a variant that never passes the cursor on
CommentsVariables_NoCursor(o, cursor) ==
  [owner |-> Get(o.owner), name |-> Get(o.repo), number |-> Get(o.number), after |-> None]

\* { owner, name, number, after } of one page request
CommentsVariables(o, cursor) ==
  [owner |-> Get(o.owner), name |-> Get(o.repo), number |-> Get(o.number), after |-> cursor]

\* the request of one iteration; pages beyond MaxPages are not explored
CommentsRequest ==
  /\ pc = "comments_loop"
  /\ Len(requests) < MaxPages
  /\ Issue(GraphQLRequest(Get(token), "listComments", CommentsVariables(Opt, after)))
  /\ pc' = "comments_wait"
  /\ UNCHANGED <<args, envToken, parserVars, options, token, ioVars, responses, handlerVars>>
  /\ UNCHANGED invoked

\* the comment nodes from+1 .. from+n
CommentNodes(from, n) == [k \in 1..n |-> [id |-> from + k]]

\* data?.repository?.discussion of a page: None, or the discussion with a batch
\* of n further comments, numbered on from those already delivered
PageData(delivered, pageNo) ==
  { None }
    \cup { Some([id |-> "D_7", number |-> 7, title |-> pageNo, url |-> "u",
                 nodes |-> CommentNodes(delivered, n),
                 hasNextPage |-> h,
                 endCursor |-> IF n = 0 THEN None ELSE Some(delivered + n)]) :
             n \in 0..MaxBatch, h \in BOOLEAN }

\* a variant that stops only once the limit is exceeded
LimitReached_Exceeded(o, all) == IsFinite(o.limit) /\ Get(o.limit) > 0 /\ Len(all) > Get(o.limit)

\* comments.length >= Opt.limit with a finite positive limit
LimitReached(o, all) == IsFinite(o.limit) /\ Get(o.limit) > 0 /\ Len(all) >= Get(o.limit)

\* a variant that keeps everything fetched
Truncate_Nothing(all, limit) == all

\* comments.length = options.limit
Truncate(all, limit) == SubSeq(all, 1, limit)

\* a variant that takes the summary of the latest page
Summary_Latest(current, discussion) ==
  Some([id |-> discussion.id, number |-> discussion.number,
        title |-> discussion.title, url |-> discussion.url])

\* if (!discussionSummary) discussionSummary = { id, number, title, url }
Summary(current, discussion) ==
  IF IsSome(current) THEN current
  ELSE Some([id |-> discussion.id, number |-> discussion.number,
             title |-> discussion.title, url |-> discussion.url])

\* a variant that always sees a further page
HasNextPage_Always(discussion) == TRUE

\* Boolean(discussion.comments?.pageInfo?.hasNextPage)
HasNextPage(discussion) == discussion.hasNextPage

\* a variant with the message of another failure
ErrDiscussionNotFound_Unresolved ==
  HandlerError("Unable to resolve discussion ID. Check the discussion number.")

\* throw new Error('Discussion not found.')
ErrDiscussionNotFound == HandlerError("Discussion not found.")

CommentsOutput(summary, list) == [discussion |-> summary, comments |-> list]

\* the rest of one iteration after the answer: throw, break and output, or
\* go round the loop again
CommentsResponse ==
  /\ pc = "comments_wait"
  /\ \E resp \in GraphQLAnswers(PageData(Len(comments), Len(responses) + 1), None) :
       /\ Receive(resp)
       /\ LET r == requestGraphQL(resp)
          IN IF IsSome(r.err)
             THEN /\ MainCatch(Get(r.err))
                  /\ UNCHANGED <<stdoutLog, comments, after, discussionSummary>>
             ELSE IF ~IsSome(r.value)
             THEN /\ MainCatch(ErrDiscussionNotFound)
                  /\ UNCHANGED <<stdoutLog, comments, after, discussionSummary>>
             ELSE LET discussion == Get(r.value)
                      summary == Summary(discussionSummary, discussion)
                      all == comments \o discussion.nodes
                  IN /\ discussionSummary' = summary
                     /\ IF LimitReached(Opt, all)
                        THEN /\ comments' = Truncate(all, Get(Opt.limit))
                             /\ UNCHANGED after
                             /\ Output(CommentsOutput(Get(summary), comments'), Opt.format)
                             /\ MainReturn
                        ELSE /\ comments' = all
                             /\ after' = discussion.endCursor
                             /\ IF ~HasNextPage(discussion)
                                THEN /\ Output(CommentsOutput(Get(summary), all), Opt.format)
                                     /\ MainReturn
                                ELSE /\ pc' = "comments_loop"
                                     /\ UNCHANGED ioVars
  /\ UNCHANGED <<args, envToken, parserVars, options, token, resolvedId>>
  /\ UNCHANGED invoked

(***************************************************************************)
(* The program                                                             *)
(***************************************************************************)
Next ==
  \/ Startup
  \/ ParseIteration
  \/ ParseReturn
  \/ Precheck
  \/ HandleList
  \/ ListResponse
  \/ HandleListCategories
  \/ ListCategoriesResponse
  \/ HandleGet
  \/ GetResponse
  \/ HandleCreate
  \/ CreateLookupResponse
  \/ CreateMutationResponse
  \/ HandleComment
  \/ CommentLookupResponse
  \/ CommentMutationResponse
  \/ HandleListComments
  \/ CommentsRequest
  \/ CommentsResponse

Spec == Init /\ [][Next]_vars

(***************************************************************************)
(* Vocabulary of the properties                                            *)
(***************************************************************************)
Last(seq) == seq[Len(seq)]

\* the text of a flag as it appears in the program's messages
FlagText(f) ==
  CASE f = F_token -> "--token" [] f = F_owner -> "--owner" [] f = F_repo -> "--repo"
    [] f = F_list -> "--list" [] f = F_listCategories -> "--list-categories"
    [] f = F_limit -> "--limit" [] f = F_get -> "--get" [] f = F_create -> "--create"
    [] f = F_comment -> "--comment" [] f = F_listComments -> "--list-comments"
    [] f = F_title -> "--title" [] f = F_body -> "--body"
    [] f = F_categoryId -> "--category-id" [] f = F_replyTo -> "--reply-to"
    [] f = F_answered -> "--answered" [] f = F_state -> "--state"
    [] f = F_format -> "--format" [] f = F_help -> "--help"

ActionFlags == { F_list, F_listCategories, F_get, F_create, F_comment, F_listComments }

\* the action an action flag stands for
ActionOf(flag) ==
  CASE flag = F_list -> "list"
    [] flag = F_listCategories -> "listCategories"
    [] flag = F_get -> "get"
    [] flag = F_create -> "create"
    [] flag = F_comment -> "comment"
    [] flag = F_listComments -> "listComments"

\* the run ended in main's catch of a parser error
ParseFailed == pc = "exit" /\ options = None /\ exitCode = Some(1) /\ helpCount = 1

\* parseArgs has returned
Parsed == IsSome(options)

\* the argument list holds action flags of two different actions
TwoDistinctActions(list) ==
  \E j, k \in DOMAIN list :
    /\ list[j] \in ActionFlags
    /\ list[k] \in ActionFlags
    /\ ActionOf(list[j]) # ActionOf(list[k])

\* the parser is about to examine the token at position i
AtToken(flags) == pc = "parse" /\ i <= Len(args) /\ args[i] \in flags

\* the token after position k is missing or is a flag name
NoValueAt(list, k) == k + 1 > Len(list) \/ list[k + 1] \in FLAG_NAMES

(***************************************************************************)
(* C1: when the parser reaches an action flag whose action differs from    *)
(* the action set by an earlier token, parsing fails with the              *)
(* multiple-actions error naming the earlier and the later action; and     *)
(* whenever parseArgs has returned, every action flag of the argument list *)
(* stands for the one action the options carry.                            *)
(***************************************************************************)
C1_SingleAction ==
  [][ /\ ( /\ AtToken(ActionFlags)
           /\ IsSome(opts.action)
           /\ Get(opts.action) # ActionOf(args[i]) )
         => /\ ParseFailed'
            /\ stderrLog' = <<ErrMultipleActions(Get(opts.action), ActionOf(args[i]))>>
      /\ Parsed' =>
           \A k \in DOMAIN args :
             args[k] \in ActionFlags => Get(options').action = Some(ActionOf(args[k]))
    ]_vars

C1_Witness ==
  /\ ParseFailed
  /\ stderrLog = <<ErrMultipleActions("list", "get")>>

(***************************************************************************)
(* C2 (as stated): every invocation whose argument list holds two distinct *)
(* action flags fails parsing, and issues no request.                      *)
(***************************************************************************)
C2_Original ==
  TwoDistinctActions(args) =>
    /\ requests = <<>>
    /\ ~Parsed
    /\ pc = "exit" => ParseFailed

(***************************************************************************)
(* C2 (amended): an invocation whose argument list holds two distinct      *)
(* action flags never issues a request and parseArgs never returns for it; *)
(* it fails parsing (exit code 1) unless the list is answered by the help  *)
(* text because it holds --help, in which case it exits with code 0.       *)
(***************************************************************************)
C2_NoRequestOnConflict ==
  TwoDistinctActions(args) =>
    /\ requests = <<>>
    /\ inflight = 0
    /\ ~Parsed
    /\ pc = "exit" =>
         IF Includes(args, F_help)
         THEN exitCode = Some(0) /\ helpCount = 1 /\ stderrLog = <<>>
         ELSE ParseFailed

C2_Witness ==
  /\ args = <<F_list, F_get, V_7>>
  /\ ParseFailed
  /\ requests = <<>>

(***************************************************************************)
(* C3: for the create action with token, owner and repo present, when      *)
(* title, body or category id is missing the run fails with the message of *)
(* a missing field (of the only missing field when one is missing), and    *)
(* no request, neither the repository lookup nor the mutation, is issued.  *)
(***************************************************************************)
CreateMissing(o) ==
  (IF Truthy(o.title) THEN {} ELSE {"--create requires --title"})
    \cup (IF Truthy(o.body) THEN {} ELSE {"--create requires --body"})
    \cup (IF Truthy(o.categoryId) THEN {} ELSE {"--create requires --category-id"})

CreateReached ==
  /\ Parsed
  /\ Opt.action = Some("create")
  /\ pc \notin {"precheck", "dispatch"}
  /\ Truthy(token) /\ Truthy(Opt.owner) /\ Truthy(Opt.repo)

C3_CreateValidation ==
  (CreateReached /\ CreateMissing(Opt) # {}) =>
    /\ requests = <<>>
    /\ pc = "exit"
    /\ exitCode = Some(1)
    /\ stdoutLog = <<>>
    /\ Len(stderrLog) = 1
    /\ stderrLog[1].text \in CreateMissing(Opt)

C3_Witness ==
  /\ CreateReached
  /\ Truthy(Opt.title) /\ Truthy(Opt.body) /\ ~IsSome(Opt.categoryId)
  /\ stderrLog = <<[text |-> "--create requires --category-id"]>>
  /\ requests = <<>>

ValueFlags ==
  { F_token, F_owner, F_repo, F_limit, F_get, F_comment, F_listComments, F_title, F_body,
    F_categoryId, F_replyTo, F_answered, F_state, F_format }

\* the flag at the parser's position is an action flag in conflict with the
\* action already set
ConflictAtToken ==
  /\ AtToken(ActionFlags)
  /\ IsSome(opts.action)
  /\ Get(opts.action) # ActionOf(args[i])

(***************************************************************************)
(* C4 (as stated): when the parser reaches a flag that takes a value and   *)
(* the flag is the last token or is followed by a registered flag name,    *)
(* parsing fails with "<flag> requires a value"; otherwise the following   *)
(* token is consumed as the value and is not itself examined as a flag.    *)
(***************************************************************************)
C4_Original ==
  [][ AtToken(ValueFlags) =>
        IF NoValueAt(args, i)
        THEN ParseFailed' /\ stderrLog' = <<ErrRequiresValue(FlagText(args[i]))>>
        ELSE pc' = "parse" => i' = i + 2
    ]_vars

(***************************************************************************)
(* C4 (amended): the same, except that --get, --comment and                *)
(* --list-comments reached after a different action has been set fail      *)
(* with the multiple-actions error, whether or not a value follows.        *)
(***************************************************************************)
C4_RequiresValue ==
  [][ (AtToken(ValueFlags) /\ ~ConflictAtToken) =>
        IF NoValueAt(args, i)
        THEN ParseFailed' /\ stderrLog' = <<ErrRequiresValue(FlagText(args[i]))>>
        ELSE /\ pc' = "parse" => i' = i + 2
             /\ pc' \in {"parse", "exit"}
    ]_vars

C4_Witness ==
  /\ ParseFailed
  /\ args[i] = F_title
  /\ i + 1 <= Len(args)
  /\ args[i + 1] = F_list
  /\ stderrLog = <<ErrRequiresValue("--title")>>

IntegerFlags == { F_limit, F_get, F_comment, F_listComments }

\* the string is wholly a base-10 integer: an optional minus sign and then
\* digits only, at least one
WhollyInteger(s) ==
  LET d == IF s # <<>> /\ Head(s) = "-" THEN Tail(s) ELSE s
  IN d # <<>> /\ \A k \in DOMAIN d : IsDigit(d[k])

(***************************************************************************)
(* C5: whenever parseArgs has returned, the value of every --limit, --get, *)
(* --comment and --list-comments flag of the argument list is wholly a     *)
(* base-10 integer (any other value makes parsing fail).                   *)
(***************************************************************************)
C5_IntegerValues ==
  Parsed =>
    \A k \in DOMAIN args :
      (args[k] \in IntegerFlags /\ k + 1 <= Len(args)) => WhollyInteger(args[k + 1])

(***************************************************************************)
(* C6: the limit the parser holds or returns is a positive integer, and    *)
(* parsing that fails at --limit with a value of zero or below reports     *)
(* "--limit requires a positive integer"; no argument list with such a     *)
(* --limit value is ever parsed successfully.                              *)
(***************************************************************************)
NonPositive == { V_0, V_neg3 }

C6_LimitPositive ==
  /\ IsSome(opts.limit) => Get(opts.limit) > 0
  /\ Parsed => (IsSome(Opt.limit) => Get(Opt.limit) > 0)
  /\ Parsed =>
       \A k \in DOMAIN args :
         (args[k] = F_limit /\ k + 1 <= Len(args)) => args[k + 1] \notin NonPositive
  /\ ( /\ ParseFailed
       /\ args[i] = F_limit
       /\ i + 1 <= Len(args)
       /\ args[i + 1] \in NonPositive )
     => stderrLog = <<ErrLimitPositive>>

C6_Witness ==
  /\ ParseFailed
  /\ args[i] = F_limit
  /\ i + 1 <= Len(args)
  /\ args[i + 1] = V_neg3
  /\ stderrLog = <<ErrLimitPositive>>

\* two strings are equal up to the case of their letters
EqIgnoreCase(a, b) == toUpperCase(a) = toUpperCase(b)

\* the positions of a flag in a list
PositionsOf(list, flag) == { k \in DOMAIN list : list[k] = flag }

\* the value after the last occurrence of a flag
LastValueOf(list, flag) ==
  LET k == CHOOSE m \in PositionsOf(list, flag) : \A n \in PositionsOf(list, flag) : n <= m
  IN list[k + 1]

\* the first request is the list query
ListIssued ==
  /\ requests # <<>>
  /\ requests[1].api = "graphql"
  /\ requests[1].op = "listDiscussions"

AnsweredAccepted(v) ==
  \E w \in {S_answered, S_unanswered, S_true, S_false, S_any} : EqIgnoreCase(v, w)

\* the filter a --answered value stands for: None for any
AnsweredMeaning(v) ==
  IF EqIgnoreCase(v, S_any) THEN None
  ELSE IF EqIgnoreCase(v, S_answered) \/ EqIgnoreCase(v, S_true) THEN Some(TRUE)
  ELSE Some(FALSE)

(***************************************************************************)
(* C7: --answered with one of answered, unanswered, true, false, any in    *)
(* any letter case sets the filter to true for answered/true, to false for *)
(* unanswered/false and clears it for any; every other value fails         *)
(* parsing; and the answered variable of the list query is the meaning of  *)
(* the last --answered of the argument list, absent when that is any.      *)
(***************************************************************************)
C7_Answered ==
  [][ /\ (AtToken({F_answered}) /\ ~NoValueAt(args, i)) =>
           IF AnsweredAccepted(args[i + 1])
           THEN /\ pc' = "parse"
                /\ i' = i + 2
                /\ opts' = [opts EXCEPT !.answered = AnsweredMeaning(args[i + 1])]
           ELSE ParseFailed' /\ stderrLog' = <<ErrAnswered>>
      /\ ListIssued' =>
           requests'[1].variables.answered =
             IF PositionsOf(args, F_answered) = {} THEN None
             ELSE AnsweredMeaning(LastValueOf(args, F_answered))
    ]_vars

C7_Witness ==
  /\ ListIssued
  /\ Cardinality(PositionsOf(args, F_answered)) = 2
  /\ LastValueOf(args, F_answered) = S_any
  /\ requests[1].variables.answered = None

(***************************************************************************)
(* C8: when a list run with --answered unanswered (or false) has issued    *)
(* its request, the run with that value exchanged for false (or            *)
(* unanswered) parses too and issues the identical request; the request    *)
(* carries answered = false when that flag is the last --answered.         *)
(***************************************************************************)
C8_UnansweredIsFalse ==
  ListIssued =>
    \A k \in PositionsOf(args, F_answered) :
      (k + 1 <= Len(args) /\ args[k + 1] \in {S_unanswered, S_false}) =>
        LET other == IF args[k + 1] = S_unanswered THEN S_false ELSE S_unanswered
            twin == parseArgs([args EXCEPT ![k + 1] = other])
        IN /\ twin.err = None
           /\ ListRequest(twin.opts, ResolveToken(twin.opts, envToken)) = requests[1]
           /\ (\A n \in PositionsOf(args, F_answered) : n <= k) =>
                requests[1].variables.answered = Some(FALSE)

C8_Witness ==
  /\ ListIssued
  /\ PositionsOf(args, F_answered) # {}
  /\ LastValueOf(args, F_answered) = S_unanswered
  /\ requests[1].variables.answered = Some(FALSE)

\* the values of the --state flags of a list, in order
RECURSIVE StateValues(_)
StateValues(list) ==
  IF Len(list) < 2 THEN <<>>
  ELSE IF Head(list) = F_state THEN <<list[2]>> \o StateValues(Tail(Tail(list)))
  ELSE StateValues(Tail(list))

StateAccepted(v) == EqIgnoreCase(v, V_open) \/ EqIgnoreCase(v, V_closed)
StateTokenOf(v) == IF EqIgnoreCase(v, V_open) THEN S_OPEN ELSE S_CLOSED

\* the distinct state tokens of a sequence of values, in order of first occurrence
RECURSIVE DistinctStates(_, _)
DistinctStates(values, acc) ==
  IF values = <<>> THEN acc
  ELSE LET t == StateTokenOf(Head(values))
       IN DistinctStates(Tail(values),
                         IF \E k \in DOMAIN acc : acc[k] = t THEN acc ELSE Append(acc, t))

ExpectedStates(list) ==
  IF StateValues(list) = <<>> THEN None ELSE Some(DistinctStates(StateValues(list), <<>>))

(***************************************************************************)
(* C9: --state takes open or closed in any letter case and fails parsing   *)
(* on any other value; after the flags parsed so far, and when parseArgs   *)
(* returns, the states option is the list of the distinct uppercase tokens *)
(* in order of first occurrence; and that list is the states variable of   *)
(* the list query.                                                         *)
(***************************************************************************)
C9_States ==
  /\ pc = "parse" => opts.states = ExpectedStates(SubSeq(args, 1, i - 1))
  /\ Parsed =>
       /\ \A k \in DOMAIN StateValues(args) : StateAccepted(StateValues(args)[k])
       /\ Opt.states = ExpectedStates(args)
  /\ ( /\ ParseFailed
       /\ args[i] = F_state
       /\ ~NoValueAt(args, i)
       /\ ~StateAccepted(args[i + 1]) )
     => stderrLog = <<ErrState>>
  /\ ListIssued => requests[1].variables.states = ExpectedStates(args)

C9_Witness ==
  /\ ListIssued
  /\ StateValues(args) = <<V_open, S_CLOSED, V_open>>
  /\ requests[1].variables.states = Some(<<S_OPEN, S_CLOSED>>)

FormatAccepted(v) == EqIgnoreCase(v, S_json) \/ EqIgnoreCase(v, S_text)

(***************************************************************************)
(* C10 (as stated): parseArgs returns only when every --format value is    *)
(* json or text, exactly as written; the format is json when --format is   *)
(* not given.                                                              *)
(***************************************************************************)
C10_Original ==
  Parsed =>
    /\ \A k \in PositionsOf(args, F_format) : args[k + 1] \in {S_json, S_text}
    /\ PositionsOf(args, F_format) = {} => Opt.format = S_json

(***************************************************************************)
(* C10 (amended): --format accepts json and text in any letter case and    *)
(* stores the lower-case word; any other value fails parsing with the      *)
(* unsupported-format error; the format is json when --format is not       *)
(* given.                                                                  *)
(***************************************************************************)
C10_Format ==
  /\ Parsed =>
       /\ \A k \in PositionsOf(args, F_format) : FormatAccepted(args[k + 1])
       /\ Opt.format =
            IF PositionsOf(args, F_format) = {} THEN S_json
            ELSE IF EqIgnoreCase(LastValueOf(args, F_format), S_json) THEN S_json
            ELSE S_text
  /\ ( /\ ParseFailed
       /\ args[i] = F_format
       /\ ~NoValueAt(args, i) )
     => /\ ~FormatAccepted(args[i + 1])
        /\ Len(stderrLog) = 1
        /\ stderrLog[1].text = "Unsupported --format value: "

C10_Witness ==
  /\ ParseFailed
  /\ args[i] = F_format
  /\ i + 1 <= Len(args)
  /\ args[i + 1] = V_xml
  /\ stderrLog = <<ErrFormat(V_xml)>>

(***************************************************************************)
(* C11: preconditions of dispatch                                          *)
(***************************************************************************)
\* the token the run can use: the value of --token or the environment's
TokenPresent == Truthy(Opt.token) \/ Truthy(envToken)
OwnerRepoPresent == Truthy(Opt.owner) /\ Truthy(Opt.repo)
ActionPresent == IsSome(Opt.action)
PreconditionsMet == TokenPresent /\ OwnerRepoPresent /\ ActionPresent

\* the messages that name something the run lacks
MissingMessages ==
  (IF TokenPresent THEN {} ELSE {ErrMissingToken})
    \cup (IF OwnerRepoPresent THEN {} ELSE {ErrMissingOwnerRepo})
    \cup (IF ActionPresent THEN {} ELSE {ErrNoAction})

\* main has left the checks that follow parsing
PastPrecheck == Parsed /\ pc # "precheck"

\* C11: a handler is invoked or a request issued only when parseArgs has
\* returned and a token, an owner, a repository and an action are all
\* present; when parseArgs has returned and one of them is missing the run
\* exits 1 with one message that names something missing, and no handler
\* and no request; the missing action is reported by main after parseArgs
\* returned (no help text, which only a parser error prints).
C11_Preconditions ==
  /\ (invoked # <<>> \/ requests # <<>>) => Parsed /\ PreconditionsMet
  /\ (PastPrecheck /\ ~PreconditionsMet) =>
       /\ pc = "exit"
       /\ exitCode = Some(1)
       /\ Len(stderrLog) = 1
       /\ stderrLog[1] \in MissingMessages
       /\ helpCount = 0
       /\ invoked = <<>>
       /\ requests = <<>>

\* a run with token, owner and repository but no action flag: parseArgs
\* returned, main reported the missing action
C11_Witness ==
  /\ PastPrecheck
  /\ TokenPresent /\ OwnerRepoPresent /\ ~ActionPresent
  /\ stderrLog = <<ErrNoAction>>
  /\ exitCode = Some(1)

\* a run lacking only the owner, stopped before its handler
C11_WitnessOwner ==
  /\ PastPrecheck
  /\ TokenPresent /\ ActionPresent /\ ~Truthy(Opt.owner)
  /\ stderrLog = <<ErrMissingOwnerRepo>>

(***************************************************************************)
(* C12: how precondition errors are reported                               *)
(***************************************************************************)
\* the run ended on a precondition error of main
PreconditionFailed == PastPrecheck /\ ~PreconditionsMet

\* C12 as stated: a precondition error is treated as a usage error of the
\* parser is, reported with the help text and exit code 1.
C12_Original ==
  PreconditionFailed => (exitCode = Some(1) /\ helpCount = 1)

\* C12: a precondition error is reported by its message alone and exit code
\* 1, the help text is not printed; the help text accompanies exit code 1
\* exactly when parseArgs threw.
C12_MessageOnly ==
  /\ PreconditionFailed =>
       /\ exitCode = Some(1)
       /\ helpCount = 0
       /\ stderrLog \in {<<ErrMissingToken>>, <<ErrMissingOwnerRepo>>, <<ErrNoAction>>}
       /\ stdoutLog = <<>>
  /\ (exitCode = Some(1) /\ helpCount > 0) <=> ParseFailed

\* a run without any token, stopped by main with the message alone
C12_Witness ==
  /\ PreconditionFailed
  /\ ~TokenPresent
  /\ stderrLog = <<ErrMissingToken>>
  /\ helpCount = 0
  /\ exitCode = Some(1)

(***************************************************************************)
(* C13: exit codes and the error stream                                    *)
(***************************************************************************)
\* the top-level check: no argument at all, or --help among them
HelpRequested == Len(args) = 0 \/ Includes(args, F_help)

\* a handler was called and reached its final output(...)
ActionCompleted == Len(invoked) = 1 /\ Len(stdoutLog) = 1

\* the last answer of the remote service is a failure: the fetch rejected,
\* a non-success status, or a GraphQL payload with errors
RemoteFailure ==
  /\ responses # <<>>
  /\ LET resp == Last(responses)
         req == requests[Len(responses)]
     IN \/ resp.rejected
        \/ ~resp.ok
        \/ (req.api = "graphql" /\ resp.payload.errors)

\* the response body the failure carries: the GraphQL payload, the REST body
\* when it is not empty, nothing when the fetch rejected
CarriedBody ==
  LET resp == Last(responses)
      req == requests[Len(responses)]
  IN IF resp.rejected THEN None
     ELSE IF req.api = "graphql" THEN Some(resp.payload)
     ELSE IF resp.rawBody.kind = "empty" THEN None
     ELSE Some([parsed |-> resp.rawBody.kind = "json", value |-> resp.rawBody.value])

\* every failure ends with code 1 and its message first on the error stream;
\* a remote failure is followed by the body it carries, if any
FailureReported ==
  /\ (pc = "exit" /\ ~ActionCompleted /\ ~HelpRequested) =>
       /\ exitCode = Some(1)
       /\ Len(stderrLog) >= 1
       /\ "text" \in DOMAIN stderrLog[1]
  /\ RemoteFailure =>
       /\ pc = "exit"
       /\ exitCode = Some(1)
       /\ Len(stderrLog) = (IF IsSome(CarriedBody) THEN 2 ELSE 1)
       /\ "text" \in DOMAIN stderrLog[1]
       /\ IsSome(CarriedBody) => stderrLog[2] = [body |-> Get(CarriedBody)]

\* C13 as stated: exit code 0 exactly when the selected action completed;
\* code 1 on parse, missing-argument and remote failures, reported on the
\* error stream.
C13_Original ==
  /\ (exitCode = Some(0)) <=> ActionCompleted
  /\ FailureReported

\* C13: the process exits with code 0 exactly when the help was requested
\* (no argument or --help, no action runs) or the selected action
\* completed; with code 1 on every parse, missing-argument and remote
\* failure, the message and then the carried response body on the error
\* stream; nothing is written to the error stream on exit 0.
C13_ExitCodes ==
  /\ (exitCode = Some(0)) <=> (pc = "exit" /\ (HelpRequested \/ ActionCompleted))
  /\ ~(HelpRequested /\ ActionCompleted)
  /\ pc = "exit" => exitCode \in {Some(0), Some(1)}
  /\ exitCode = Some(0) => stderrLog = <<>>
  /\ FailureReported

\* a remote failure whose body is printed after the message
C13_Witness ==
  /\ RemoteFailure
  /\ IsSome(CarriedBody)
  /\ Len(stderrLog) = 2
  /\ exitCode = Some(1)

\* a completed action: exit code 0
C13_WitnessSuccess == ActionCompleted /\ exitCode = Some(0) /\ ~HelpRequested

(***************************************************************************)
(* C14: dispatch                                                           *)
(***************************************************************************)
\* the handler of each action name
HandlerOf(action) ==
  CASE action = "list" -> "handleList"
    [] action = "listCategories" -> "handleListCategories"
    [] action = "get" -> "handleGet"
    [] action = "create" -> "handleCreate"
    [] action = "comment" -> "handleComment"
    [] action = "listComments" -> "handleListComments"

\* main has entered the switch and called a handler
Dispatched == PastPrecheck /\ PreconditionsMet /\ pc # "dispatch"

\* the error thrown by the transport helper for the last answer
TransportError ==
  LET resp == Last(responses)
      req == requests[Len(responses)]
  IN IF req.api = "graphql" THEN Get(requestGraphQL(resp).err)
     ELSE Get(requestREST(resp).err)

\* what main's catch prints for an error: its message, then its body if any
ReportOf(e) ==
  <<[text |-> e.text]>>
    \o (IF IsSome(e.responseBody) THEN <<[body |-> Get(e.responseBody)]>> ELSE <<>>)

\* C14: at most one handler is ever invoked; once main has dispatched,
\* exactly one was, the one of the parsed action; an error thrown inside the
\* handler (here by its transport helper) is what main reports, message and
\* body unchanged, without the help text.
C14_Dispatch ==
  /\ Len(invoked) <= 1
  /\ invoked # <<>> => Dispatched
  /\ Dispatched =>
       /\ Len(invoked) = 1
       /\ invoked[1] = HandlerOf(Get(Opt.action))
  /\ RemoteFailure =>
       /\ stderrLog = ReportOf(TransportError)
       /\ helpCount = 0
       /\ exitCode = Some(1)

\* handleGet was called for --get and its REST error reached the report
C14_Witness ==
  /\ invoked = <<"handleGet">>
  /\ Opt.action = Some("get")
  /\ RemoteFailure
  /\ stderrLog = ReportOf(TransportError)
  /\ Len(stderrLog) = 2

(***************************************************************************)
(* C15: the token of the requests                                          *)
(***************************************************************************)
\* --token occurs in the argument list
TokenGiven == PositionsOf(args, F_token) # {}
\* the value of its last occurrence
GivenToken == LastValueOf(args, F_token)

\* C15 as stated: every request carries the value of --token when the flag
\* is given, the environment's GITHUB_TOKEN only when it is absent.
C15_Original ==
  \A k \in DOMAIN requests :
    requests[k].authorization = (IF TokenGiven THEN GivenToken ELSE Get(envToken))

\* C15: every request, GraphQL or REST, carries the value of --token when
\* the flag is given with a non-empty value, and the environment's
\* GITHUB_TOKEN when --token is absent or given an empty value; the token
\* sent is never empty.
C15_Token ==
  \A k \in DOMAIN requests :
    /\ requests[k].authorization =
         (IF TokenGiven /\ GivenToken # <<>> THEN GivenToken ELSE Get(envToken))
    /\ requests[k].authorization # <<>>

\* a request sent with the value of --token although the environment has a
\* token of its own
C15_Witness ==
  /\ requests # <<>>
  /\ TokenGiven
  /\ GivenToken = V_abc
  /\ envToken = Some(V_tk)
  /\ requests[1].authorization = V_abc

\* --token with an empty value: the request carries the environment's token
C15_WitnessEmpty ==
  /\ requests # <<>>
  /\ TokenGiven
  /\ GivenToken = <<>>
  /\ requests[1].authorization = V_tk

(***************************************************************************)
(* C16, C17: the output of the list action                                 *)
(***************************************************************************)
\* handleList ran to its output
ListCompleted == invoked = <<"handleList">> /\ Len(stdoutLog) = 1

\* the discussion nodes of the answer to the list query, none when the
\* answer has no repository
RemoteNodes ==
  LET data == responses[1].payload.data
  IN IF IsSome(data) THEN Get(data) ELSE <<>>

\* the summaries written by the list action
ListSummaries == stdoutLog[1].value

\* C16: each summary the list action writes has state "CLOSED" exactly when
\* the remote node's closed flag is true and "OPEN" otherwise; the node's
\* other fields are passed through unchanged, one summary per node in the
\* remote order.
C16_State ==
  ListCompleted =>
    /\ Len(ListSummaries) = Len(RemoteNodes)
    /\ \A k \in DOMAIN RemoteNodes :
         /\ ListSummaries[k].state \in {"CLOSED", "OPEN"}
         /\ (ListSummaries[k].state = "CLOSED") <=> (RemoteNodes[k].closed = TRUE)
         /\ \A f \in DOMAIN RemoteNodes[k] : ListSummaries[k][f] = RemoteNodes[k][f]
         /\ DOMAIN ListSummaries[k] = DOMAIN RemoteNodes[k] \cup {"state"}

\* a closed node and an open node, output as CLOSED and OPEN
C16_Witness ==
  /\ ListCompleted
  /\ Len(RemoteNodes) = 2
  /\ RemoteNodes[1].closed /\ ~RemoteNodes[2].closed
  /\ ListSummaries[1].state = "CLOSED"
  /\ ListSummaries[2].state = "OPEN"

\* the limit of the list action: the value of --limit, or the default
RequestedLimit == IF IsSome(Opt.limit) THEN Get(Opt.limit) ELSE DefaultLimit

\* C17 as stated: the list action never outputs more summaries than the
\* limit, whatever the remote answers.
C17_Original == ListCompleted => Len(ListSummaries) <= RequestedLimit

\* C17: the list query asks the remote for at most n discussions (first = n,
\* the value of --limit, 20 without it) and the list action outputs one
\* summary per node of the answer, without truncating; it outputs no more
\* than n whenever the remote returns no more nodes than asked.
C17_Limit ==
  /\ \A k \in DOMAIN requests :
       (requests[k].api = "graphql" /\ requests[k].op = "listDiscussions") =>
         requests[k].variables.first = RequestedLimit
  /\ ListCompleted =>
       /\ Len(ListSummaries) = Len(RemoteNodes)
       /\ Len(RemoteNodes) <= requests[1].variables.first =>
            Len(ListSummaries) <= RequestedLimit

\* --limit 2 and a remote that returns two nodes: two summaries
C17_Witness ==
  /\ ListCompleted
  /\ Opt.limit = Some(2)
  /\ requests[1].variables.first = 2
  /\ Len(RemoteNodes) = 2
  /\ Len(ListSummaries) = 2

\* --limit 2 and a remote that returns three nodes: three summaries
C17_WitnessOver ==
  /\ ListCompleted
  /\ Opt.limit = Some(2)
  /\ Len(ListSummaries) = 3

(***************************************************************************)
(* C18: the get action                                                     *)
(***************************************************************************)
\* what requestREST makes of the body of the first answer: nothing for an
\* empty body, else the parsed JSON or the raw text
FirstRESTPayload ==
  LET raw == responses[1].rawBody
  IN IF raw.kind = "empty" THEN None
     ELSE Some([parsed |-> raw.kind = "json", value |-> raw.value])

\* C18 as stated: the get action issues exactly one request, a REST GET of
\* the discussion named by owner, repo and number, and on success outputs the
\* payload of the answer unmodified.
C18_Original ==
  invoked = <<"handleGet">> =>
    /\ Len(requests) = 1
    /\ requests[1].api = "rest"
    /\ requests[1].method = "GET"
    /\ requests[1].path = [owner |-> LastValueOf(args, F_owner),
                           repo |-> LastValueOf(args, F_repo),
                           number |-> Get(Opt.number)]
    /\ Len(stdoutLog) <= 1
    /\ (responses # <<>> /\ ~RemoteFailure) =>
         stdoutLog = <<[value |-> FirstRESTPayload, format |-> Opt.format]>>
    /\ stdoutLog # <<>> => (responses # <<>> /\ ~RemoteFailure)

\* C18: the get action, when the number parsed from --get is finite, issues
\* exactly one request, a REST GET of the discussion identified by the
\* owner, repo and number of the command line, and no other; when the answer
\* is a success it outputs the payload of that answer unmodified, in the
\* requested format, and nothing else. When the number is not finite (a
\* numeral beyond the range of a double parses to Infinity) it issues no
\* request, writes nothing to stdout and fails with '--get requires a
\* discussion number', exit code 1.
C18_Get ==
  invoked = <<"handleGet">> =>
    IF IsFinite(Opt.number)
    THEN /\ Len(requests) = 1
         /\ requests[1].api = "rest"
         /\ requests[1].method = "GET"
         /\ requests[1].path = [owner |-> LastValueOf(args, F_owner),
                                repo |-> LastValueOf(args, F_repo),
                                number |-> Get(Opt.number)]
         /\ Len(stdoutLog) <= 1
         /\ (responses # <<>> /\ ~RemoteFailure) =>
              stdoutLog = <<[value |-> FirstRESTPayload, format |-> Opt.format]>>
         /\ stdoutLog # <<>> => (responses # <<>> /\ ~RemoteFailure)
    ELSE /\ requests = <<>>
         /\ stdoutLog = <<>>
         /\ stderrLog = <<[text |-> "--get requires a discussion number"]>>
         /\ exitCode = Some(1)

\* --get 7 answered with a JSON body, which is the output
C18_Witness ==
  /\ invoked = <<"handleGet">>
  /\ Opt.number = Some(7)
  /\ requests[1].path.number = 7
  /\ Len(responses) = 1
  /\ ~RemoteFailure
  /\ responses[1].rawBody.kind = "json"
  /\ stdoutLog[1].value = FirstRESTPayload
  /\ exitCode = Some(0)

(***************************************************************************)
(* C19, C20: lookups before mutations                                      *)
(***************************************************************************)
\* the positions of the requests of one GraphQL operation
RequestsOf(op) ==
  { k \in DOMAIN requests : requests[k].api = "graphql" /\ requests[k].op = op }

\* the first answer has arrived and is a transport failure
LookupFailed ==
  /\ responses # <<>>
  /\ \/ responses[1].rejected
     \/ ~responses[1].ok
     \/ responses[1].payload.errors

\* the first answer has arrived, is a success, and carries this id (None when
\* the object looked up is absent)
LookupAnswered == responses # <<>> /\ ~LookupFailed
LookupId == responses[1].payload.data
LookupHasId == LookupAnswered /\ IsSome(LookupId) /\ Get(LookupId) # ""

MsgNoRepositoryId == "Unable to resolve repository ID for createDiscussion."
MsgNoDiscussionId == "Unable to resolve discussion ID. Check the discussion number."

\* the create action, past its validation, has asked for the repository id
CreateLookedUp == invoked = <<"handleCreate">> /\ requests # <<>>

\* the createDiscussion mutation is the second request, after a lookup that
\* returned a non-empty id, and carries that id and the fields given
CreateMutationSound ==
  \A k \in RequestsOf("createDiscussion") :
    /\ k = 2
    /\ invoked = <<"handleCreate">>
    /\ requests[1].op = "repositoryId"
    /\ LookupHasId
    /\ requests[k].variables =
         [repositoryId |-> Get(LookupId),
          categoryId |-> LastValueOf(args, F_categoryId),
          title |-> LastValueOf(args, F_title),
          body |-> LastValueOf(args, F_body)]

\* C19 as stated: the mutation follows a lookup that returned a non-empty
\* id and carries it with categoryId, title and body; when the lookup fails
\* or returns no id the run fails with 'Unable to resolve repository ID' and
\* the mutation is never issued.
C19_Original ==
  /\ CreateMutationSound
  /\ (CreateLookedUp /\ responses # <<>> /\ ~LookupHasId) =>
       /\ exitCode = Some(1)
       /\ stderrLog[1].text = MsgNoRepositoryId
       /\ RequestsOf("createDiscussion") = {}

\* C19: the createDiscussion mutation is issued only after the lookup
\* returned a non-empty repository id, and carries that id with the given
\* categoryId, title and body; when the lookup is answered without an id
\* (absent or empty) the run fails with 'Unable to resolve repository ID for
\* createDiscussion.'; when the lookup request itself fails the run fails
\* with the transport's error and its response body; in both cases the
\* mutation is never issued.
C19_Create ==
  /\ CreateMutationSound
  /\ (CreateLookedUp /\ LookupAnswered /\ ~LookupHasId) =>
       /\ pc = "exit"
       /\ exitCode = Some(1)
       /\ stderrLog = <<[text |-> MsgNoRepositoryId]>>
       /\ Len(requests) = 1
       /\ stdoutLog = <<>>
  /\ (CreateLookedUp /\ LookupFailed) =>
       /\ pc = "exit"
       /\ exitCode = Some(1)
       /\ stderrLog = ReportOf(TransportError)
       /\ stderrLog[1].text # MsgNoRepositoryId
       /\ Len(requests) = 1
       /\ stdoutLog = <<>>
  /\ (CreateLookedUp /\ LookupHasId) => RequestsOf("createDiscussion") = {2}

\* the mutation issued with the id the lookup returned
C19_Witness ==
  /\ CreateLookedUp
  /\ LookupHasId
  /\ Get(LookupId) = "ID_2"
  /\ RequestsOf("createDiscussion") = {2}
  /\ requests[2].variables.repositoryId = "ID_2"

\* the lookup answered with an empty id: the run failed before the mutation
C19_WitnessNoId ==
  /\ CreateLookedUp
  /\ LookupAnswered
  /\ LookupId = Some("")
  /\ stderrLog = <<[text |-> MsgNoRepositoryId]>>
  /\ Len(requests) = 1

\* the comment action, past its validation, has asked for the discussion id
CommentLookedUp == invoked = <<"handleComment">> /\ requests # <<>>

\* the value of --reply-to, None (null) when the flag is absent
GivenReplyTo ==
  IF PositionsOf(args, F_replyTo) # {} THEN Some(LastValueOf(args, F_replyTo)) ELSE None

\* C20: the addDiscussionComment mutation is issued only after the lookup
\* returned a non-empty discussion id, as the second request, and carries
\* that id, the body given and replyToId, which is the value of --reply-to,
\* or null when the flag is absent; when the lookup is answered without an
\* id the run fails with 'Unable to resolve discussion ID. ...', and neither
\* then nor when the lookup request fails is a comment mutation issued.
C20_Comment ==
  /\ \A k \in RequestsOf("addDiscussionComment") :
       /\ k = 2
       /\ invoked = <<"handleComment">>
       /\ requests[1].op = "discussionId"
       /\ requests[1].variables.number = Get(Opt.number)
       /\ LookupHasId
       /\ requests[k].variables =
            [discussionId |-> Get(LookupId),
             replyToId |-> GivenReplyTo,
             body |-> LastValueOf(args, F_body)]
  /\ (CommentLookedUp /\ LookupAnswered /\ ~LookupHasId) =>
       /\ pc = "exit"
       /\ exitCode = Some(1)
       /\ stderrLog = <<[text |-> MsgNoDiscussionId]>>
       /\ Len(requests) = 1
       /\ stdoutLog = <<>>
  /\ (CommentLookedUp /\ LookupFailed) =>
       /\ exitCode = Some(1)
       /\ Len(requests) = 1
       /\ stdoutLog = <<>>
  /\ (CommentLookedUp /\ LookupHasId) => RequestsOf("addDiscussionComment") = {2}

\* a reply: the mutation carries the id looked up and the --reply-to value
C20_Witness ==
  /\ CommentLookedUp
  /\ LookupHasId
  /\ RequestsOf("addDiscussionComment") = {2}
  /\ GivenReplyTo = Some(V_r)
  /\ requests[2].variables.replyToId = Some(V_r)
  /\ requests[2].variables.discussionId = Get(LookupId)

\* a top-level comment: replyToId is null
C20_WitnessTopLevel ==
  /\ CommentLookedUp
  /\ RequestsOf("addDiscussionComment") = {2}
  /\ GivenReplyTo = None
  /\ requests[2].variables.replyToId = None

\* the discussion does not exist: the run failed before the mutation
C20_WitnessNoId ==
  /\ CommentLookedUp
  /\ LookupAnswered
  /\ LookupId = None
  /\ stderrLog = <<[text |-> MsgNoDiscussionId]>>
  /\ Len(requests) = 1

(***************************************************************************)
(* C21 .. C25, C30: the list-comments action                               *)
(***************************************************************************)
\* main called handleListComments
CommentsRun == invoked = <<"handleListComments">>

\* the k-th answer is a success that resolves the discussion
GoodPage(k) ==
  /\ ~responses[k].rejected
  /\ responses[k].ok
  /\ ~responses[k].payload.errors
  /\ IsSome(responses[k].payload.data)

\* the discussion of the k-th answer
PageOf(k) == Get(responses[k].payload.data)

\* the comment nodes of the pages 1 .. k, in fetch order
RECURSIVE Fetched(_)
Fetched(k) == IF k = 0 THEN <<>> ELSE Fetched(k - 1) \o PageOf(k).nodes

\* handleListComments wrote its result
CommentsCompleted == CommentsRun /\ Len(stdoutLog) = 1
OutComments == stdoutLog[1].value.comments

\* the run has a limit (the parser only lets positive ones through)
Limited == IsSome(Opt.limit)
TheLimit == Get(Opt.limit)

\* C21: with --limit L the list-comments action outputs the first L of the
\* comments fetched, in page order, when the pages fetched hold L or more
\* (so exactly L when the discussion has more than L), all of them when
\* they hold fewer, and never more than L.
C21_Truncation ==
  (CommentsCompleted /\ Limited) =>
    LET all == Fetched(Len(responses))
    IN /\ Len(OutComments) <= TheLimit
       /\ Len(all) >= TheLimit => OutComments = SubSeq(all, 1, TheLimit)
       /\ Len(all) > TheLimit => Len(OutComments) = TheLimit
       /\ Len(all) < TheLimit => OutComments = all

\* --limit 2, one comment on the first page and two on the second: the first
\* two of the three are the output
C21_Witness ==
  /\ CommentsCompleted
  /\ Limited
  /\ TheLimit = 2
  /\ Len(responses) = 2
  /\ Len(Fetched(2)) = 3
  /\ OutComments = <<[id |-> 1], [id |-> 2]>>

\* the pages 1 .. k hold enough comments to reach the limit
LimitCrossed(k) == Limited /\ Len(Fetched(k)) >= TheLimit

\* C22: in the list-comments action a page request is issued only when every
\* earlier page was answered, resolved the discussion, left the accumulated
\* count below the limit and reported hasNextPage = true; so no request is
\* issued after the page that brings the count to the limit or beyond, even
\* when that page reports a further page, and a run that ends with its
\* output made as many requests as the index of the first page crossing the
\* limit, or as there are pages up to the first without a next one when the
\* limit is never reached.
C22_StopAtLimit ==
  CommentsRun =>
    /\ \A k \in DOMAIN requests :
         k > 1 =>
           /\ Len(responses) >= k - 1
           /\ GoodPage(k - 1)
           /\ ~LimitCrossed(k - 1)
           /\ PageOf(k - 1).hasNextPage
    /\ CommentsCompleted =>
         LET n == Len(responses)
         IN /\ Len(requests) = n
            /\ \A j \in 1..(n - 1) : ~LimitCrossed(j) /\ PageOf(j).hasNextPage
            /\ LimitCrossed(n) \/ ~PageOf(n).hasNextPage

\* --limit 2 reached by the first page, which reports a further page: one
\* request only
C22_Witness ==
  /\ CommentsCompleted
  /\ Limited
  /\ Len(requests) = 1
  /\ Len(PageOf(1).nodes) = 2
  /\ PageOf(1).hasNextPage
  /\ pc = "exit"

\* the limit reached by the second page only: two requests
C22_WitnessSecond ==
  /\ CommentsCompleted
  /\ Limited
  /\ Len(requests) = 2
  /\ ~LimitCrossed(1)
  /\ LimitCrossed(2)
  /\ PageOf(2).hasNextPage

\* the four summary fields of the discussion of page k
SummaryOfPage(k) ==
  [id |-> PageOf(k).id, number |-> PageOf(k).number,
   title |-> PageOf(k).title, url |-> PageOf(k).url]

\* C23: without a limit the list-comments action outputs {discussion,
\* comments} where comments is the concatenation, in fetch order, of the
\* nodes of every page fetched, nothing dropped or duplicated, the pages
\* fetched being those up to and including the first that reports
\* hasNextPage = false, and discussion is the summary of the first page.
C23_AllPages ==
  (CommentsCompleted /\ ~Limited) =>
    LET n == Len(responses)
    IN /\ n >= 1
       /\ Len(requests) = n
       /\ \A j \in 1..(n - 1) : PageOf(j).hasNextPage
       /\ ~PageOf(n).hasNextPage
       /\ DOMAIN stdoutLog[1].value = {"discussion", "comments"}
       /\ OutComments = Fetched(n)
       /\ stdoutLog[1].value.discussion = SummaryOfPage(1)

\* two pages of two comments and one comment: three comments in order, the
\* summary of the first page
C23_Witness ==
  /\ CommentsCompleted
  /\ ~Limited
  /\ Len(responses) = 2
  /\ Len(PageOf(1).nodes) = 2
  /\ Len(PageOf(2).nodes) = 1
  /\ OutComments = <<[id |-> 1], [id |-> 2], [id |-> 3]>>
  /\ stdoutLog[1].value.discussion.title = 1
  /\ PageOf(2).title = 2

\* C24: at every point of every run at most one request is in flight, each
\* request being issued only when all earlier ones were answered; in the
\* list-comments loop the first request has after = null and each later
\* request has the endCursor of the page before it as its after cursor.
C24_Sequential ==
  /\ inflight \in {0, 1}
  /\ inflight = Len(requests) - Len(responses)
  /\ CommentsRun =>
       \A k \in DOMAIN requests :
         /\ requests[k].op = "listComments"
         /\ k = 1 => requests[k].variables.after = None
         /\ k > 1 =>
              /\ Len(responses) >= k - 1
              /\ GoodPage(k - 1)
              /\ requests[k].variables.after = PageOf(k - 1).endCursor

\* the second page asked for with the cursor the first page reported, no
\* other request in flight
C24_Witness ==
  /\ CommentsRun
  /\ Len(requests) = 2
  /\ Len(responses) = 1
  /\ inflight = 1
  /\ PageOf(1).endCursor = Some(2)
  /\ requests[1].variables.after = None
  /\ requests[2].variables.after = Some(2)

\* the k-th answer is a success that resolves no discussion
NoDiscussion(k) ==
  /\ ~responses[k].rejected
  /\ responses[k].ok
  /\ ~responses[k].payload.errors
  /\ ~IsSome(responses[k].payload.data)

\* C25: in the list-comments action, when the answer to a page, the first or
\* a later one, resolves no discussion, the run fails with 'Discussion not
\* found.' and exit code 1, issues no further request, and writes nothing to
\* standard output, the comments of earlier pages included.
C25_NotFound ==
  (CommentsRun /\ responses # <<>> /\ NoDiscussion(Len(responses))) =>
    /\ pc = "exit"
    /\ exitCode = Some(1)
    /\ stderrLog = <<[text |-> "Discussion not found."]>>
    /\ stdoutLog = <<>>
    /\ Len(requests) = Len(responses)

\* the second page resolves no discussion after a first page of two
\* comments: nothing is output
C25_Witness ==
  /\ CommentsRun
  /\ Len(responses) = 2
  /\ GoodPage(1)
  /\ Len(PageOf(1).nodes) = 2
  /\ Len(comments) = 2
  /\ NoDiscussion(2)
  /\ stdoutLog = <<>>
  /\ exitCode = Some(1)

\* the first page resolves no discussion
C25_WitnessFirst ==
  /\ CommentsRun
  /\ Len(responses) = 1
  /\ NoDiscussion(1)
  /\ stderrLog = <<[text |-> "Discussion not found."]>>

(***************************************************************************)
(* C26, C27: failures of the transport                                     *)
(***************************************************************************)
\* the k-th answer is an answer to a GraphQL request whose status is not a
\* success, or whose JSON has a top-level errors field
GraphQLFailure(k) ==
  /\ requests[k].api = "graphql"
  /\ "ok" \in DOMAIN responses[k]
  /\ \/ ~responses[k].ok
     \/ (~responses[k].rejected /\ responses[k].payload.errors)

\* C26: an answer to a GraphQL request with a non-success status, or with a
\* top-level errors field, fails the run: 'GitHub GraphQL API request
\* failed' and then the response body are printed to the error stream,
\* nothing of the answer is output and no request follows.
C26_GraphQLFailure ==
  \A k \in DOMAIN responses :
    GraphQLFailure(k) =>
      /\ k = Len(responses)
      /\ Len(requests) = k
      /\ exitCode = Some(1)
      /\ stdoutLog = <<>>
      /\ Len(stderrLog) = 2
      /\ stderrLog[1] = [text |-> "GitHub GraphQL API request failed"]
      /\ "body" \in DOMAIN stderrLog[2]

\* the same for the answers whose body is JSON, where it holds: the body
\* printed is the whole payload
C26_JSONFailure ==
  \A k \in DOMAIN responses :
    (GraphQLFailure(k) /\ ~responses[k].rejected) =>
      /\ k = Len(responses)
      /\ Len(requests) = k
      /\ exitCode = Some(1)
      /\ stdoutLog = <<>>
      /\ stderrLog = <<[text |-> "GitHub GraphQL API request failed"],
                       [body |-> responses[k].payload]>>

\* a non-success status with a body that is not JSON: the run fails with the
\* error of response.json() and prints no body
C26_WitnessNotJSON ==
  /\ responses # <<>>
  /\ GraphQLFailure(Len(responses))
  /\ Last(responses) = NotJSON(FALSE)
  /\ stderrLog = <<[text |-> "Unexpected token"]>>
  /\ exitCode = Some(1)

\* the k-th answer is a failure: the fetch or the reading of the body
\* rejected, a non-success status, or GraphQL errors
FailedRequest(k) ==
  \/ responses[k].rejected
  \/ ~responses[k].ok
  \/ (requests[k].api = "graphql" /\ responses[k].payload.errors)

NumberedActions == { "get", "comment", "listComments" }

\* the flag of a numbered action
NumberFlag(action) ==
  CASE action = "get" -> F_get
    [] action = "comment" -> F_comment
    [] action = "listComments" -> F_listComments

\* the message of the handler's own check of the number
NumberCheckMessage(action) ==
  CASE action = "get" -> [text |-> "--get requires a discussion number"]
    [] action = "comment" -> [text |-> "--comment requires a discussion number"]
    [] action = "listComments" -> [text |-> "--list-comments requires a discussion number"]

\* parseArgs returned with a numbered action
NumberedParsed == Parsed /\ IsSome(Opt.action) /\ Get(Opt.action) \in NumberedActions

\* a handler's check of the number fired
NumberCheckFired ==
  \E k \in DOMAIN stderrLog : \E a \in NumberedActions : stderrLog[k] = NumberCheckMessage(a)

\* C28 as stated: when parseArgs returns with a numbered action,
\* options.number is a finite integer, that of the last flag of that
\* action, and the handlers' checks of the number never fire.
C28_Original ==
  /\ NumberedParsed =>
       LET flag == NumberFlag(Get(Opt.action))
       IN /\ PositionsOf(args, flag) # {}
          /\ IsFinite(Opt.number)
          /\ Opt.number = NumberParseInt(LastValueOf(args, flag))
  /\ ~NumberCheckFired

\* C28: when parseArgs returns with a numbered action, options.number is
\* what Number.parseInt made of the value of the last flag of that same
\* action: an integer, finite unless the numeral is beyond the range of a
\* double, where it is Infinity; the handler's '<flag> requires a
\* discussion number' check fires exactly on the runs that reach the handler
\* with such an infinite number, and then no request is issued.
C28_Number ==
  /\ NumberedParsed =>
       LET flag == NumberFlag(Get(Opt.action))
       IN /\ PositionsOf(args, flag) # {}
          /\ IsSome(Opt.number)
          /\ Opt.number = NumberParseInt(LastValueOf(args, flag))
          /\ IsFinite(Opt.number) <=> DigitCount(LastValueOf(args, flag)) <= MaxDigits
  /\ NumberCheckFired <=>
       (NumberedParsed /\ invoked # <<>> /\ ~IsFinite(Opt.number))
  /\ NumberCheckFired =>
       /\ stderrLog = <<NumberCheckMessage(Get(Opt.action))>>
       /\ requests = <<>>
       /\ exitCode = Some(1)

\* --get 7 --get 2: the number is that of the last flag
C28_Witness ==
  /\ NumberedParsed
  /\ Opt.action = Some("get")
  /\ Cardinality(PositionsOf(args, F_get)) = 2
  /\ args[2] = V_7
  /\ LastValueOf(args, F_get) = V_2
  /\ Opt.number = Some(2)

\* --get with a numeral beyond the range of a double: the handler's check
\* fired
C28_WitnessHuge ==
  /\ NumberedParsed
  /\ Opt.action = Some("get")
  /\ LastValueOf(args, F_get) = V_huge
  /\ invoked = <<"handleGet">>
  /\ stderrLog = <<[text |-> "--get requires a discussion number"]>>

(***************************************************************************)
(* C29: the help                                                           *)
(***************************************************************************)
\* --help is one of the arguments, at any position
HelpAnywhere == \E k \in DOMAIN args : args[k] = F_help

\* C29: when the argument list is empty or holds --help at any position, the
\* only step of the run prints the help text once and exits with code 0:
\* nothing is parsed, no token, owner or repository is looked at, no handler
\* is called, no request is issued and nothing is written to the error
\* stream.
C29_Help ==
  (Len(args) = 0 \/ HelpAnywhere) =>
    \/ pc = "start"
    \/ /\ pc = "exit"
       /\ exitCode = Some(0)
       /\ helpCount = 1
       /\ stderrLog = <<>>
       /\ stdoutLog = <<>>
       /\ i = 1
       /\ opts = InitOpts
       /\ options = None
       /\ token = None
       /\ invoked = <<>>
       /\ requests = <<>>

\* --help as the would-be value of --limit: the help, exit code 0
C29_Witness ==
  /\ args = <<F_limit, F_help>>
  /\ pc = "exit"
  /\ exitCode = Some(0)
  /\ helpCount = 1

\* the empty argument list
C29_WitnessEmpty == args = <<>> /\ pc = "exit" /\ exitCode = Some(0) /\ helpCount = 1

(***************************************************************************)
(* C30: the end of the pagination loop                                     *)
(***************************************************************************)
\* the k-th answer ends the loop: a failed request, no discussion, the limit
\* reached, or no further page
EndsLoop(k) ==
  \/ ~GoodPage(k)
  \/ LimitCrossed(k)
  \/ ~PageOf(k).hasNextPage

\* C30: the pagination loop of list-comments ends at the first answer that
\* is a failed request, resolves no discussion, brings the count to the
\* limit, or reports hasNextPage = false, and at no other: the run is over
\* exactly when the latest answer is one of these, and after any other
\* answer the handler is back at the head of the loop, where the next page
\* request is its only step, or waiting for the answer to that request. A
\* remote that never sends such an answer is asked for page after page
\* without end (here until the pages explored are exhausted).
C30_LoopEnd ==
  (CommentsRun /\ responses # <<>>) =>
    LET n == Len(responses)
    IN /\ \A j \in 1..(n - 1) : ~EndsLoop(j)
       /\ EndsLoop(n) <=> pc = "exit"
       /\ ~EndsLoop(n) =>
            \/ pc = "comments_loop" /\ Len(requests) = n /\ inflight = 0
            \/ pc = "comments_wait" /\ Len(requests) = n + 1 /\ inflight = 1
       /\ (pc = "comments_loop" /\ n < MaxPages) => ENABLED CommentsRequest

\* every page explored was empty and reported a further page, with no limit
\* set: the handler is at the head of its loop again
C30_Witness ==
  /\ CommentsRun
  /\ ~Limited
  /\ Len(responses) = MaxPages
  /\ \A k \in DOMAIN responses :
       GoodPage(k) /\ PageOf(k).nodes = <<>> /\ PageOf(k).hasNextPage
  /\ pc = "comments_loop"
  /\ exitCode = None
  /\ stdoutLog = <<>>

\* with a limit that single comments never reach within the pages explored
C30_WitnessLimit ==
  /\ CommentsRun
  /\ Limited
  /\ Len(responses) = 2
  /\ \A k \in 1..2 : GoodPage(k) /\ PageOf(k).hasNextPage
  /\ Fetched(2) # <<>>
  /\ Len(Fetched(2)) < TheLimit
  /\ pc = "comments_loop"

====
